---- MODULE Spec2Model ----
(***************************************************************************)
(* Canvas -> Open edX converter (mitx-canvas-tools).                       *)
(*                                                                         *)
(* Strings are sequences of one-character strings, so that normalisation,  *)
(* truncation and suffixing of url_names are computed character by         *)
(* character as the Python code computes them.                             *)
(***************************************************************************)
EXTENDS Integers, Sequences, FiniteSets, TLC

VARIABLES
    used_names,   \* URLNameGenerator.used_names of a stand-alone generator
    hist,         \* the generate calls made on it since it was last empty
    archive,      \* the parsed modules of the archive being converted
    conv,         \* the CanvasToIRConverter object of the current converter
    results,      \* what each convert() call so far returned
    env,          \* the files around the run: the archive path, what the
                  \* extraction holds besides the modules, what can be written
    calc          \* the calls of the rubric and numerical-answer functions

genVars == <<used_names, hist>>
convVars == <<archive, env, conv, results>>
calcVars == <<calc>>
vars == <<used_names, hist, archive, conv, results, env, calc>>

----------------------------------------------------------------------------
(* Bounds of the identifier-generator specification *)

MaxTitleLen == 3
MaxMaxLength == 3
MaxCalls == 2
MaxDeepCalls == 11

(* Bounds of the conversion specification *)

MaxModules == 2
MaxItems == 2
MaxQuestions == 2
MaxRuns == 2
MaxFaults == 2

\* upper-case and lower-case letter, characters outside [a-z0-9_-] and kept
\* characters
TitleChars == {"a", "A", " ", "_", "1"}

----------------------------------------------------------------------------
(* Character classes and string helpers (Python str / re semantics) *)

UpperSeq == <<"A","B","C","D","E","F","G","H","I","J","K","L","M",
              "N","O","P","Q","R","S","T","U","V","W","X","Y","Z">>
LowerSeq == <<"a","b","c","d","e","f","g","h","i","j","k","l","m",
              "n","o","p","q","r","s","t","u","v","w","x","y","z">>
DigitSeq == <<"0","1","2","3","4","5","6","7","8","9">>

Range(f) == {f[i] : i \in DOMAIN f}

Whitespace == {" "}

\* characters kept by re.sub(r'[^a-z0-9_-]', '_', name)
AllowedChars == Range(LowerSeq) \cup Range(DigitSeq) \cup {"_", "-"}

\* the lower-case letter of each upper-case letter
UpperToLower ==
    [c \in Range(UpperSeq) |-> LowerSeq[CHOOSE i \in 1..26 : UpperSeq[i] = c]]

LowerChar(c) == IF c \in DOMAIN UpperToLower THEN UpperToLower[c] ELSE c

\* str.lower()
Lower(s) == [i \in 1..Len(s) |-> LowerChar(s[i])]

RECURSIVE LStrip(_, _)
LStrip(s, cs) ==
    IF s # <<>> /\ Head(s) \in cs THEN LStrip(Tail(s), cs) ELSE s

RECURSIVE RStrip(_, _)
RStrip(s, cs) ==
    IF s # <<>> /\ s[Len(s)] \in cs THEN RStrip(SubSeq(s, 1, Len(s) - 1), cs) ELSE s

\* str.strip(chars)
Strip(s, cs) == RStrip(LStrip(s, cs), cs)

\* re.sub(r'[^a-z0-9_-]', '_', name)
ReplaceSpecial(s) == [i \in 1..Len(s) |-> IF s[i] \in AllowedChars THEN s[i] ELSE "_"]

\* re.sub(r'_+', '_', name): every underscore that follows an underscore is
\* dropped ("" marks a dropped position)
IsKept(c) == c # ""

CollapseUnderscores(s) ==
    SelectSeq([i \in 1..Len(s) |->
                  IF i > 1 /\ s[i] = "_" /\ s[i - 1] = "_" THEN "" ELSE s[i]],
              IsKept)

Min(a, b) == IF a < b THEN a ELSE b
Max(a, b) == IF a > b THEN a ELSE b

\* Python slice s[:n], negative n counts from the end
SliceTo(s, n) ==
    IF n >= 0 THEN SubSeq(s, 1, Min(n, Len(s)))
    ELSE SubSeq(s, 1, Max(0, Len(s) + n))

\* str(counter) for counter >= 0
RECURSIVE Dec(_)
Dec(k) == IF k < 10 THEN <<DigitSeq[k + 1]>> ELSE Dec(k \div 10) \o <<DigitSeq[(k % 10) + 1]>>

IsPrefix(p, s) == Len(p) <= Len(s) /\ SubSeq(s, 1, Len(p)) = p

----------------------------------------------------------------------------
(* URLNameGenerator *)

\* lines 28-42: normalise and truncate the display name
TruncateName(name, max_length) ==
    IF Len(name) > max_length THEN RStrip(SliceTo(name, max_length), {"_"}) ELSE name

NormalizeName(display_name, max_length) ==
    TruncateName(
        Strip(CollapseUnderscores(ReplaceSpecial(Strip(Lower(display_name),
                                                       Whitespace))), {"_"}),
        max_length)

\* lines 48-50: the candidate tried for one value of counter
SuffixOfConstant(counter) == <<"_", "1">>

SuffixOf(counter) == <<"_">> \o Dec(counter)

Truncated(original_name, max_length, counter) ==
    SliceTo(original_name, max_length - Len(SuffixOf(counter)))

Candidate(original_name, max_length, counter) ==
    Truncated(original_name, max_length, counter) \o SuffixOf(counter)

\* lines 47-51: the while loop; fuel is the number of loop bodies still
\* allowed, done = FALSE records a loop that has not ended within the fuel
RECURSIVE UniqueLoop(_, _, _, _, _, _)
UniqueLoop(used, original_name, max_length, name, counter, fuel) ==
    IF name \notin used
    THEN [name |-> name, iters |-> counter - 1, done |-> TRUE]
    ELSE IF fuel = 0
         THEN [name |-> name, iters |-> counter - 1, done |-> FALSE]
         ELSE UniqueLoop(used, original_name, max_length,
                         Candidate(original_name, max_length, counter),
                         counter + 1, fuel - 1)

RegisterNothing(used, name) == used

\* the registry after generate() (line 53)
Register(used, name) == used \cup {name}

\* lines 44-54 of generate, from the normalised name on: the result record
\* carries the returned name, the registry after the call, and the loop
\* statistics
GenerateResult(used, original_name, r) ==
    [name |-> r.name, original |-> original_name, iters |-> r.iters,
     done |-> r.done, used |-> Register(used, r.name)]

GenerateFrom(used, original_name, max_length) ==
    GenerateResult(used, original_name,
                   UniqueLoop(used, original_name, max_length, original_name, 1,
                              Cardinality(used) + 1))

\* URLNameGenerator.generate
GenerateOp(used, display_name, max_length) ==
    GenerateFrom(used, NormalizeName(display_name, max_length), max_length)

\* CanvasToIRConverter.__init__: a new URLNameGenerator, an empty ledger of
\* skipped items, no timed quizzes, empty identifier maps
NewIRConverter ==
    [used_names |-> {}, skipped_items |-> <<>>, timed_quizzes |-> <<>>,
     identifier_to_url_name |-> <<>>, item_id_to_url_name |-> <<>>]

\* the converter part of the state while only the generator is exercised
ConvIdle ==
    /\ archive = <<>>
    /\ env = <<>>
    /\ conv = NewIRConverter
    /\ results = <<>>

Titles == UNION {[1..n -> TitleChars] : n \in 0..MaxTitleLen}
MaxLengths == 1..MaxMaxLength

\* the calls generate(t, m) for every t in Titles and m in MaxLengths, each
\* given by the normalised name lines 28-42 compute for it
NormalizedCalls ==
    {[original |-> NormalizeName(t, m), max |-> m] : t \in Titles, m \in MaxLengths}

\* one call of generate on the registry, for a title whose normalised name
\* is original_name; hist is the record of the calls made since the
\* registry was last empty
Generate(original_name, max_length) ==
    LET g == GenerateFrom(used_names, original_name, max_length)
    IN  /\ used_names' = g.used
        /\ hist' = Append(hist, [max |-> max_length,
                                 original |-> g.original, name |-> g.name,
                                 iters |-> g.iters, done |-> g.done,
                                 before |-> used_names])
        /\ UNCHANGED <<convVars, calcVars>>

\* URLNameGenerator.reset
Reset ==
    /\ hist # <<>>
    /\ used_names' = {}
    /\ hist' = <<>>
    /\ UNCHANGED <<convVars, calcVars>>

GenInit ==
    /\ used_names = {}
    /\ hist = <<>>
    /\ calc = <<>>
    /\ ConvIdle

GenNext ==
    \/ \E c \in NormalizedCalls :
          Len(hist) < MaxCalls /\ Generate(c.original, c.max)
    \/ Reset

SpecGen == GenInit /\ [][GenNext]_vars

\* long runs of colliding calls: two titles of length 2, max_length 2
DeepTitles == {<<"A", "A">>, <<"A", "1">>}
DeepMaxLength == 2

GenDeepNext ==
    \/ \E t \in DeepTitles :
          /\ Len(hist) < MaxDeepCalls
          /\ Generate(NormalizeName(t, DeepMaxLength), DeepMaxLength)
    \/ Reset

SpecGenDeep == GenInit /\ [][GenDeepNext]_vars

----------------------------------------------------------------------------
(* The archive: modules and their items as CanvasParser returns them *)

DefaultMaxLength == 50

Str_html == <<"_", "h", "t", "m", "l">>
Str_assignment == <<"_", "a", "s", "s", "i", "g", "n", "m", "e", "n", "t">>
Str_q == <<"_", "q">>
Str_content == <<"_", "c", "o", "n", "t", "e", "n", "t">>
Str_import_notes == <<"i", "m", "p", "o", "r", "t", "_", "n", "o", "t", "e", "s">>
Str_unsupported_content ==
    <<"u", "n", "s", "u", "p", "p", "o", "r", "t", "e", "d">> \o Str_content
Str_manual_review ==
    <<"m", "a", "n", "u", "a", "l", "_", "r", "e", "v", "i", "e", "w">>
Str_unsupported_report ==
    <<"u", "n", "s", "u", "p", "p", "o", "r", "t", "e", "d", "_",
      "r", "e", "p", "o", "r", "t">>
Str_ImportNotes == <<"I", "m", "p", "o", "r", "t", " ", "N", "o", "t", "e", "s">>
Str_min_time_limit ==
    <<" ", "m", "i", "n", " ", "t", "i", "m", "e", " ", "l", "i", "m", "i", "t", ")">>

\* titles of modules and items
Title_M == <<"M">>
Title_M1content == <<"M", " ", "1", " ", "c", "o", "n", "t", "e", "n", "t">>

ModuleTitles == {Title_M}

\* What a run finds around the modules:
\*   path_exists  the archive path exists (canvas_parser.py 36)
\*   manifest     imsmanifest.xml is in the extraction (canvas_parser.py 75)
\*   metadata_ok  the course settings and module metadata are well-formed XML
\*   front_page   "found": a wiki page is flagged front page; "none": no such
\*                page; "unreadable": reading the wiki pages raises
\*   assets_ok    the files of web_resources can be copied
\*   unwritable   the paths of the output directory whose open() raises
Env(path_exists, manifest, metadata_ok, front_page, assets_ok, unwritable) ==
    [path_exists |-> path_exists, manifest |-> manifest,
     metadata_ok |-> metadata_ok, front_page |-> front_page,
     assets_ok |-> assets_ok, unwritable |-> unwritable]

\* a well-formed archive, with or without a front page, and an output
\* directory where every file can be written
NormalEnvs == {Env(TRUE, TRUE, TRUE, fp, TRUE, {}) : fp \in {"found", "none"}}

\* An item of a module (CanvasParser._parse_module_item) together with what
\* the extraction directory holds for it:
\*   has_id      the item element has an identifier attribute
\*   has_ref     identifierref is a non-empty string
\*   found       the wiki page body / the assignment settings exist
\*   qti_file    <identifierref>/assessment_qti.xml exists
\*   questions   number of questions QTIParser.parse_quiz returns for it
\*   time_limit  time_limit of assessment_meta.xml, 0 when there is none
\*   raises      reading the file of the item raises (malformed XML, a page
\*               that cannot be decoded)
Item(ct, title, has_ref, found, qti_file, questions, time_limit, url) ==
    [content_type |-> ct, title |-> title, has_id |-> TRUE, has_ref |-> has_ref,
     found |-> found, qti_file |-> qti_file, questions |-> questions,
     time_limit |-> time_limit, url |-> url, raises |-> FALSE]

Malformed(item) == [item EXCEPT !.raises = TRUE]

ItemUniverse ==
    { Item("WikiPage", Title_M1content, TRUE, TRUE, FALSE, 0, 0, ""),
      Item("WikiPage", Title_M, TRUE, FALSE, FALSE, 0, 0, ""),
      Item("Quizzes::Quiz", Title_M, TRUE, FALSE, TRUE, MaxQuestions, 30, ""),
      Item("Quizzes::Quiz", Title_M, TRUE, FALSE, TRUE, 0, 0, ""),
      Item("ContextExternalTool", Title_M, TRUE, FALSE, FALSE, 0, 0, "http://tool"),
      Item("DiscussionTopic", Title_M, TRUE, FALSE, FALSE, 0, 0, ""),
      Item("ExternalUrl", Title_M, FALSE, FALSE, FALSE, 0, 0, "http://site"),
      Item("ExternalUrl", Title_M1content, FALSE, FALSE, FALSE, 0, 0, "http://site"),
      Item("Attachment", Title_M, TRUE, FALSE, FALSE, 0, 0, ""),
      Item("Attachment", Title_M, TRUE, FALSE, TRUE, 1, 0, ""),
      Item("", Title_M, FALSE, FALSE, FALSE, 0, 0, "") }

\* the items of the archives converted more than once
RunItemUniverse ==
    { Item("WikiPage", Title_M1content, TRUE, TRUE, FALSE, 0, 0, ""),
      Item("Quizzes::Quiz", Title_M, TRUE, FALSE, TRUE, MaxQuestions, 30, ""),
      Item("ContextExternalTool", Title_M, TRUE, FALSE, FALSE, 0, 0, "http://tool"),
      Item("ExternalUrl", Title_M, FALSE, FALSE, FALSE, 0, 0, "http://site") }

ModulesWith(k, universe) ==
    {[title |-> t, prerequisites |-> <<>>, items |-> is] :
        t \in ModuleTitles, is \in [1..k -> universe]}

RECURSIVE Sum(_)
Sum(s) == IF s = <<>> THEN 0 ELSE Head(s) + Sum(Tail(s))

\* the numbers of items of the modules of an archive: at most MaxModules
\* modules and at most MaxItems items in all
Shapes ==
    {sh \in UNION {[1..n -> 0..MaxItems] : n \in 0..MaxModules} : Sum(sh) <= MaxItems}

RECURSIVE ArchivesOfShape(_, _)
ArchivesOfShape(sh, universe) ==
    IF sh = <<>> THEN {<<>>}
    ELSE {<<m>> \o rest : m \in ModulesWith(Head(sh), universe),
                          rest \in ArchivesOfShape(Tail(sh), universe)}

Archives == UNION {ArchivesOfShape(sh, ItemUniverse) : sh \in Shapes}

RunArchives == UNION {ArchivesOfShape(sh, RunItemUniverse) : sh \in Shapes}

\* the items of the archives with quizzes of all kinds and malformed files
FaultItemUniverse ==
    { Item("WikiPage", Title_M, TRUE, TRUE, FALSE, 0, 0, ""),
      Item("WikiPage", Title_M, TRUE, FALSE, FALSE, 0, 0, ""),
      Malformed(Item("WikiPage", Title_M, TRUE, TRUE, FALSE, 0, 0, "")),
      Malformed(Item("Assignment", Title_M, TRUE, TRUE, FALSE, 0, 0, "")),
      Item("Quizzes::Quiz", Title_M, TRUE, FALSE, TRUE, MaxQuestions, 30, ""),
      Item("Quizzes::Quiz", Title_M, TRUE, FALSE, TRUE, 1, 45, ""),
      Item("Quizzes::Quiz", Title_M, TRUE, FALSE, TRUE, 1, 0, ""),
      Item("Quizzes::Quiz", Title_M1content, TRUE, FALSE, TRUE, 1, 0, ""),
      Item("Quizzes::Quiz", Title_M, TRUE, FALSE, TRUE, 0, 0, ""),
      Item("Quizzes::Quiz", Title_M, TRUE, FALSE, FALSE, 0, 0, ""),
      Malformed(Item("Quizzes::Quiz", Title_M, TRUE, FALSE, TRUE, 1, 30, "")),
      Item("ExternalUrl", Title_M, FALSE, FALSE, FALSE, 0, 0, "http://site") }

FaultArchives == UNION {ArchivesOfShape(sh, FaultItemUniverse) : sh \in Shapes}

\* the identifier attribute of item ii of module mi
ItemId(mi, ii) == <<mi, ii>>

\* the items of all modules in traversal order
RECURSIVE FlatItems(_, _)
FlatItems(modules, mi) ==
    IF mi > Len(modules) THEN <<>>
    ELSE [ii \in 1..Len(modules[mi].items) |->
             [id |-> ItemId(mi, ii), item |-> modules[mi].items[ii]]]
         \o FlatItems(modules, mi + 1)

----------------------------------------------------------------------------
(* CanvasToIRConverter *)

\* _build_identifier_map, lines 119-131: one generate per item that has an
\* identifierref; c is the converter record. The identifierref of an item
\* is taken to be its own: its position stands for it.
RegisterItem(c, e, g) ==
    [c EXCEPT !.used_names = g.used,
              !.identifier_to_url_name = (e.id :> g.name) @@ @,
              !.item_id_to_url_name = IF e.item.has_id THEN (e.id :> g.name) @@ @
                                      ELSE @]

RECURSIVE BuildIdentifierMapLoop(_, _)
BuildIdentifierMapLoop(c, flat) ==
    IF flat = <<>> THEN c
    ELSE IF Head(flat).item.has_ref
         THEN BuildIdentifierMapLoop(
                  RegisterItem(c, Head(flat),
                               GenerateOp(c.used_names, Head(flat).item.title,
                                          DefaultMaxLength)),
                  Tail(flat))
         ELSE BuildIdentifierMapLoop(c, Tail(flat))

BuildIdentifierMap(c, modules) ==
    BuildIdentifierMapLoop([c EXCEPT !.identifier_to_url_name = <<>>,
                                     !.item_id_to_url_name = <<>>],
                           FlatItems(modules, 1))

\* _build_prerequisite_map, first pass (lines 176-179): one generate per
\* module title; returns the registry and the url_name of each module
WithModuleUrlName(p, g) ==
    [used_names |-> g.used, names |-> Append(p.names, g.name)]

RECURSIVE ModuleUrlNames(_, _)
ModuleUrlNames(p, modules) ==
    IF Len(p.names) = Len(modules) THEN p
    ELSE ModuleUrlNames(
             WithModuleUrlName(p, GenerateOp(p.used_names,
                                             modules[Len(p.names) + 1].title,
                                             DefaultMaxLength)),
             modules)

\* ComponentIR, VerticalIR, SequentialIR, ChapterIR
ComponentIR(type, display_name, url_name, content) ==
    [type |-> type, display_name |-> display_name, url_name |-> url_name,
     content |-> content]

VerticalIR(display_name, url_name, components) ==
    [display_name |-> display_name, url_name |-> url_name, components |-> components]

SequentialIR(display_name, url_name, prereq, verticals) ==
    [display_name |-> display_name, url_name |-> url_name, prereq |-> prereq,
     verticals |-> verticals]

ChapterIR(display_name, url_name, sequentials) ==
    [display_name |-> display_name, url_name |-> url_name, sequentials |-> sequentials]

\* _convert_wiki_page: no component without page content (lines 334-337)
WikiPageComponent(c, item, g) ==
    [conv |-> [c EXCEPT !.used_names = g.used],
     components |-> <<ComponentIR("html", item.title, g.name, "page")>>]

ConvertWikiPage(c, item) ==
    IF ~item.found THEN [conv |-> c, components |-> <<>>]
    ELSE WikiPageComponent(c, item,
             GenerateOp(c.used_names, item.title \o Str_html, DefaultMaxLength))

\* _convert_assignment: no component without settings (lines 381-384)
AssignmentComponent(c, item, g) ==
    [conv |-> [c EXCEPT !.used_names = g.used],
     components |-> <<ComponentIR("openassessment", item.title, g.name,
                                  "assignment")>>]

ConvertAssignment(c, item) ==
    IF ~item.found THEN [conv |-> c, components |-> <<>>]
    ELSE AssignmentComponent(c, item,
             GenerateOp(c.used_names, item.title \o Str_assignment, DefaultMaxLength))

\* _convert_quiz, lines 609-639: one component per parsed question
WithQuestion(q, i, g) ==
    [used_names |-> g.used,
     components |-> Append(q.components,
                           ComponentIR("problem", <<"Q">> \o Dec(i), g.name,
                                       "question"))]

RECURSIVE ConvertQuestions(_, _, _)
ConvertQuestions(q, item, i) ==
    IF i > item.questions THEN q
    ELSE ConvertQuestions(
             WithQuestion(q, i, GenerateOp(q.used_names,
                                           item.title \o Str_q \o Dec(i),
                                           DefaultMaxLength)),
             item, i + 1)

\* _convert_quiz: nothing without the question file or without questions
\* (lines 588-599); a positive time limit is recorded (lines 642-649)
QuizComponents(c, item, q) ==
    [conv |-> [c EXCEPT !.used_names = q.used_names,
                        !.timed_quizzes =
                            IF item.time_limit > 0
                            THEN Append(@, [title |-> item.title,
                                            time_limit |-> item.time_limit])
                            ELSE @],
     components |-> q.components]

NoQuestionsPlaceholder(c, item) ==
    [conv |-> c,
     components |-> <<ComponentIR("html", item.title, item.title, "")>>]

\* _convert_quiz, lines 588-599: return [] without the question file and
\* without questions
NoQuestions(c, item) == [conv |-> c, components |-> <<>>]

ConvertQuiz(c, item) ==
    IF ~item.qti_file \/ item.questions = 0 THEN NoQuestions(c, item)
    ELSE QuizComponents(c, item,
             ConvertQuestions([used_names |-> c.used_names, components |-> <<>>],
                              item, 1))

\* lines 241-248: an item with an identifierref and a question file is a quiz
EffectiveContentType(item) ==
    IF /\ item.has_ref
       /\ item.content_type \notin {"Quizzes::Quiz", "WikiPage", "Assignment"}
       /\ item.qti_file
    THEN "Quizzes::Quiz"
    ELSE item.content_type

SkippedEntryRawTags(content_type, item) ==
    IF content_type # ""
       /\ content_type \notin {"WikiPage", "Assignment", "Quizzes::Quiz"}
    THEN <<[type |-> content_type, title |-> item.title, url |-> item.url]>>
    ELSE <<>>

\* lines 289-320: the ledger entry of an item that is not converted, as a
\* sequence of zero or one entries
SkippedEntry(content_type, item) ==
    IF content_type = "ContextExternalTool"
    THEN <<[type |-> "LTI Tool", title |-> item.title, url |-> item.url]>>
    ELSE IF content_type \in {"DiscussionTopic", "Discussion"}
    THEN <<[type |-> "Discussion Topic", title |-> item.title, url |-> item.url]>>
    ELSE IF content_type = "ExternalUrl"
    THEN <<[type |-> "External URL", title |-> item.title, url |-> item.url]>>
    ELSE IF content_type # ""
            /\ content_type \notin {"WikiPage", "Assignment", "Quizzes::Quiz"}
    THEN <<[type |-> content_type, title |-> item.title, url |-> item.url]>>
    ELSE <<>>

\* lines 283-287: the time limit hint on the title of a quiz vertical
TimedDisplayName(c, item) ==
    IF /\ c.timed_quizzes # <<>>
       /\ c.timed_quizzes[Len(c.timed_quizzes)].title = item.title
    THEN item.title \o <<" ", "(">>
         \o Dec(c.timed_quizzes[Len(c.timed_quizzes)].time_limit)
         \o Str_min_time_limit
    ELSE item.title

AlwaysVertical(vertical) == <<vertical>>

\* line 322: a vertical without components is not returned (zero or one
\* verticals)
VerticalOrNone(vertical) ==
    IF vertical.components # <<>> THEN <<vertical>> ELSE <<>>

\* _convert_item_to_vertical
ConvertItemResult(item, content_type, vert_url_name, r) ==
    [conv |-> r.conv,
     raised |-> FALSE,
     components |-> Len(r.components),
     vertical |-> VerticalOrNone(
                      VerticalIR(IF content_type = "Quizzes::Quiz"
                                    /\ r.components # <<>>
                                 THEN TimedDisplayName(r.conv, item)
                                 ELSE item.title,
                                 vert_url_name, r.components))]

\* lines 267-320: the branch of the content type
ConvertContent(c, content_type, item) ==
    IF content_type = "WikiPage" THEN ConvertWikiPage(c, item)
    ELSE IF content_type = "Assignment" THEN ConvertAssignment(c, item)
    ELSE IF content_type = "Quizzes::Quiz" THEN ConvertQuiz(c, item)
    ELSE [conv |-> [c EXCEPT !.skipped_items = @ \o SkippedEntry(content_type, item)],
          components |-> <<>>]

\* lines 253-265: the url_name of the vertical is the one mapped to the
\* identifier of the item, else a generated one
VerticalUrlName(c, e, g) ==
    IF e.item.has_id /\ e.id \in DOMAIN c.item_id_to_url_name
    THEN [conv |-> c, url_name |-> c.item_id_to_url_name[e.id]]
    ELSE [conv |-> [c EXCEPT !.used_names = g.used], url_name |-> g.name]

\* where reading the content of an item raises: get_wiki_page_content
\* (canvas_parser.py 246-248), ET.parse of the assignment settings
\* (canvas_parser.py 300) and of the question file (qti_parser.py 38)
ContentRaises(content_type, item) ==
    /\ item.raises
    /\ \/ content_type = "WikiPage"
       \/ content_type = "Assignment" /\ item.found
       \/ content_type = "Quizzes::Quiz" /\ item.qti_file

ItemRaisedSkipped(content_type, item, u) ==
    [conv |-> [u.conv EXCEPT !.skipped_items =
                   Append(@, [type |-> content_type, title |-> item.title,
                              url |-> item.url])],
     raised |-> TRUE, components |-> 0, vertical |-> <<>>]

\* _convert_module_to_chapter, lines 221-228: the exception of an item is
\* caught; what the item did before it raised stays, no vertical is appended
ItemRaised(content_type, item, u) ==
    [conv |-> u.conv, raised |-> TRUE, components |-> 0, vertical |-> <<>>]

ConvertItemFrom(e, content_type, u) ==
    IF ContentRaises(content_type, e.item)
    THEN ItemRaised(content_type, e.item, u)
    ELSE ConvertItemResult(e.item, content_type, u.url_name,
                           ConvertContent(u.conv, content_type, e.item))

ConvertItemToVertical(c, e) ==
    ConvertItemFrom(e, EffectiveContentType(e.item),
        VerticalUrlName(c, e, GenerateOp(c.used_names, e.item.title,
                                         DefaultMaxLength)))

\* _convert_module_to_chapter, lines 220-228: the items of one module; log
\* keeps, per item, what converting it did
LogEntry(c, e, r) ==
    [item |-> e.item,
     raised |-> r.raised,
     components |-> r.components,
     unit |-> r.vertical # <<>>,
     display_name |-> IF r.vertical # <<>> THEN r.vertical[1].display_name
                      ELSE <<>>,
     url_name |-> IF r.vertical # <<>> THEN r.vertical[1].url_name ELSE <<>>,
     skipped_before |-> Len(c.skipped_items),
     skipped_after |-> Len(r.conv.skipped_items)]

RECURSIVE ConvertItems(_, _, _, _)
AppendVertical(c, flat, verticals, log, r) ==
    ConvertItems(r.conv, Tail(flat), verticals \o r.vertical,
                 Append(log, LogEntry(c, Head(flat), r)))

ConvertItems(c, flat, verticals, log) ==
    IF flat = <<>> THEN [conv |-> c, verticals |-> verticals, log |-> log]
    ELSE AppendVertical(c, flat, verticals, log,
                        ConvertItemToVertical(c, Head(flat)))

\* _convert_module_to_chapter
ModuleItems(modules, mi) ==
    [ii \in 1..Len(modules[mi].items) |->
        [id |-> ItemId(mi, ii), item |-> modules[mi].items[ii]]]

ChapterOf(module, prereq, g, r) ==
    [conv |-> r.conv,
     log |-> r.log,
     chapter |-> ChapterIR(module.title, g.name,
                    <<SequentialIR(module.title, g.name \o Str_content, prereq,
                                   r.verticals)>>)]

ConvertModuleFrom(c, modules, mi, prereq, g) ==
    ChapterOf(modules[mi], prereq, g,
              ConvertItems([c EXCEPT !.used_names = g.used],
                           ModuleItems(modules, mi), <<>>, <<>>))

\* prereq is the entry of the module in the prerequisite map, as zero or
\* one url_names
ConvertModuleToChapter(c, modules, mi, prereq) ==
    ConvertModuleFrom(c, modules, mi, prereq,
        GenerateOp(c.used_names, modules[mi].title, DefaultMaxLength))

\* convert, lines 95-101
RECURSIVE ConvertModules(_, _, _, _, _, _)
AppendChapter(modules, mi, chapters, log, prereq_map, r) ==
    ConvertModules(r.conv, modules, mi + 1, Append(chapters, r.chapter),
                   log \o r.log, prereq_map)

ConvertModules(c, modules, mi, chapters, log, prereq_map) ==
    IF mi > Len(modules) THEN [conv |-> c, chapters |-> chapters, log |-> log]
    ELSE AppendChapter(modules, mi, chapters, log, prereq_map,
                       ConvertModuleToChapter(c, modules, mi, prereq_map[mi]))

\* Python's order on the type labels of the ledger (str comparison)
TypeLabelOrder == <<"Attachment", "Discussion Topic", "External URL", "LTI Tool">>

LabelBefore(a, b) ==
    (CHOOSE i \in DOMAIN TypeLabelOrder : TypeLabelOrder[i] = a)
        < (CHOOSE i \in DOMAIN TypeLabelOrder : TypeLabelOrder[i] = b)

\* _create_import_notes_chapter, lines 762-767: the dict by_type, as the
\* sequence of its (type, items) pairs in insertion order
RECURSIVE GroupByType(_, _)
GroupByType(skipped, by_type) ==
    IF skipped = <<>> THEN by_type
    ELSE LET item == Head(skipped)
             known == \E k \in DOMAIN by_type : by_type[k].type = item.type
             added == IF known THEN by_type
                      ELSE Append(by_type, [type |-> item.type, items |-> <<>>])
         IN  GroupByType(Tail(skipped),
                 [k \in DOMAIN added |->
                     IF added[k].type = item.type
                     THEN [added[k] EXCEPT !.items = Append(@, item)]
                     ELSE added[k]])

\* sorted(by_type.items()), line 770: insert each pair before the first
\* pair with a later type label
RECURSIVE InsertSorted(_, _)
InsertSorted(sorted, pair) ==
    IF sorted = <<>> THEN <<pair>>
    ELSE IF LabelBefore(pair.type, Head(sorted).type) THEN <<pair>> \o sorted
         ELSE <<Head(sorted)>> \o InsertSorted(Tail(sorted), pair)

RECURSIVE SortedByType(_)
SortedByType(by_type) ==
    IF by_type = <<>> THEN <<>>
    ELSE InsertSorted(SortedByType(Tail(by_type)), Head(by_type))

ReportContentUnsorted(skipped) == GroupByType(skipped, <<>>)

\* the html report of lines 758-779: one <h3> section per type label, each
\* with one <li> per item
ReportContent(skipped) == SortedByType(GroupByType(skipped, <<>>))

\* _create_import_notes_chapter
ImportNotesChapter(c, g1, g2, g3, g4) ==
    [conv |-> [c EXCEPT !.used_names = g4.used],
     chapter |->
        ChapterIR(Str_ImportNotes, g1.name,
            <<SequentialIR("Unsupported Content", g2.name, <<>>,
                <<VerticalIR("Items Requiring Manual Review", g3.name,
                    <<ComponentIR("html", "Unsupported Items Report", g4.name,
                                  ReportContent(c.skipped_items))>>)>>)>>)]

ImportNotesFrom3(c, g1, g2, g3) ==
    ImportNotesChapter(c, g1, g2, g3,
        GenerateOp(g3.used, Str_unsupported_report, DefaultMaxLength))

ImportNotesFrom2(c, g1, g2) ==
    ImportNotesFrom3(c, g1, g2,
        GenerateOp(g2.used, Str_manual_review, DefaultMaxLength))

ImportNotesFrom1(c, g1) ==
    ImportNotesFrom2(c, g1,
        GenerateOp(g1.used, Str_unsupported_content, DefaultMaxLength))

CreateImportNotesChapter(c) ==
    ImportNotesFrom1(c, GenerateOp(c.used_names, Str_import_notes, DefaultMaxLength))

\* CanvasToIRConverter.convert: the converter after the call, the chapters of
\* the CourseIR it returns, and the per-item log
WithImportNotes(r, n) ==
    [conv |-> n.conv, chapters |-> Append(r.chapters, n.chapter), log |-> r.log]

\* lines 106-109: the Import Notes chapter when items were skipped
AddImportNotes(r) ==
    IF r.conv.skipped_items # <<>>
    THEN WithImportNotes(r, CreateImportNotesChapter(r.conv))
    ELSE r

\* _build_prerequisite_map, second pass (lines 182-187): the first
\* prerequisite of a module, where it names a module of the archive, maps
\* the module to the url_name of the first pass; the identifier of a module
\* is its position
PrerequisiteMap(modules, module_url_names) ==
    [mi \in DOMAIN modules |->
        IF /\ modules[mi].prerequisites # <<>>
           /\ modules[mi].prerequisites[1] \in DOMAIN module_url_names
        THEN <<module_url_names[modules[mi].prerequisites[1]]>>
        ELSE <<>>]

ConvertWithPrerequisites(c, modules, p) ==
    ConvertModules([c EXCEPT !.used_names = p.used_names], modules, 1, <<>>, <<>>,
                   PrerequisiteMap(modules, p.names))

\* lines 92-101: the prerequisite map, then the modules
ConvertAllModules(c, modules) ==
    ConvertWithPrerequisites(c, modules,
        ModuleUrlNames([used_names |-> c.used_names, names |-> <<>>], modules))

ConvertToIR(c, modules) ==
    AddImportNotes(ConvertAllModules(BuildIdentifierMap(c, modules), modules))

----------------------------------------------------------------------------
(* OLXGenerator *)

\* A file of the output directory: its directory, its name without the
\* extension, the extension, the url_names it refers to in document order,
\* and its text where the text is modelled.
File(dir, name, ext, refs, text) ==
    [dir |-> dir, name |-> name, ext |-> ext, refs |-> refs, text |-> text]

Path(dir, name, ext) == [dir |-> dir, name |-> name, ext |-> ext]

PathOf(file) == Path(file.dir, file.name, file.ext)

Str_run == <<"r", "u", "n">>
Str_course == <<"c", "o", "u", "r", "s", "e">>
Str_updates == <<"u", "p", "d", "a", "t", "e", "s">>
Str_overview == <<"o", "v", "e", "r", "v", "i", "e", "w">>
Str_assets == <<"a", "s", "s", "e", "t", "s">>
Str_policy == <<"p", "o", "l", "i", "c", "y">>
Str_grading_policy ==
    <<"g", "r", "a", "d", "i", "n", "g", "_", "p", "o", "l", "i", "c", "y">>

\* _create_directories, lines 70-85
OlxDirectories ==
    {"course", "chapter", "sequential", "vertical", "html", "problem",
     "openassessment", "video", "static", "policies", "about", "info",
     "assets", "drafts"}

\* an output directory nothing has been written to; error is the exception
\* on its way up, "" when there is none
EmptyOutput == [dirs |-> {}, files |-> {}, error |-> ""]

\* with open(path, 'w') as f: f.write(...)
WriteFile(out, unwritable, file) ==
    IF out.error # "" THEN out
    ELSE IF PathOf(file) \in unwritable THEN [out EXCEPT !.error = "OSError"]
    ELSE [out EXCEPT !.files = {f \in @ : PathOf(f) # PathOf(file)} \cup {file}]

\* _generate_html_component, _generate_problem_component,
\* _generate_ora_component, and _generate_component, which writes nothing for
\* any other type
GenerateComponent(out, unwritable, component) ==
    IF component.type = "html"
    THEN WriteFile(WriteFile(out, unwritable,
                             File("html", component.url_name, "xml", <<>>, "")),
                   unwritable,
                   File("html", component.url_name, "html", <<>>, "content"))
    ELSE IF component.type \in {"problem", "openassessment"}
    THEN WriteFile(out, unwritable,
                   File(component.type, component.url_name, "xml", <<>>, "content"))
    ELSE out

\* _generate_vertical, lines 188-197: a component that raises is left out
\* of the vertical, the others follow
ComponentDone(st, component, out) ==
    IF out.error # ""
    THEN [out |-> [out EXCEPT !.error = ""], refs |-> st.refs]
    ELSE [out |-> out, refs |-> Append(st.refs, component.url_name)]

RECURSIVE GenerateComponents(_, _, _)
GenerateComponents(st, unwritable, components) ==
    IF components = <<>> THEN st
    ELSE GenerateComponents(
             ComponentDone(st, Head(components),
                           GenerateComponent(st.out, unwritable, Head(components))),
             unwritable, Tail(components))

VerticalFile(vertical, st, unwritable) ==
    WriteFile(st.out, unwritable,
              File("vertical", vertical.url_name, "xml", st.refs, ""))

\* _generate_vertical
GenerateVertical(out, unwritable, vertical) ==
    VerticalFile(vertical,
                 GenerateComponents([out |-> out, refs |-> <<>>], unwritable,
                                    vertical.components),
                 unwritable)

\* the loops of _generate_sequential (lines 164-168) and _generate_chapter
\* (lines 138-142): a child that raises ends the loop, the reference to a
\* child is added after the child is generated
ChildDone(st, child, out) ==
    [out |-> out,
     refs |-> IF out.error # "" THEN st.refs ELSE Append(st.refs, child.url_name)]

RECURSIVE GenerateVerticals(_, _, _)
GenerateVerticals(st, unwritable, verticals) ==
    IF verticals = <<>> \/ st.out.error # "" THEN st
    ELSE GenerateVerticals(
             ChildDone(st, Head(verticals),
                       GenerateVertical(st.out, unwritable, Head(verticals))),
             unwritable, Tail(verticals))

SequentialFile(sequential, st, unwritable) ==
    WriteFile(st.out, unwritable,
              File("sequential", sequential.url_name, "xml", st.refs, ""))

\* _generate_sequential
GenerateSequential(out, unwritable, sequential) ==
    SequentialFile(sequential,
                   GenerateVerticals([out |-> out, refs |-> <<>>], unwritable,
                                     sequential.verticals),
                   unwritable)

RECURSIVE GenerateSequentials(_, _, _)
GenerateSequentials(st, unwritable, sequentials) ==
    IF sequentials = <<>> \/ st.out.error # "" THEN st
    ELSE GenerateSequentials(
             ChildDone(st, Head(sequentials),
                       GenerateSequential(st.out, unwritable, Head(sequentials))),
             unwritable, Tail(sequentials))

ChapterFile(chapter, st, unwritable) ==
    WriteFile(st.out, unwritable,
              File("chapter", chapter.url_name, "xml", st.refs, ""))

\* _generate_chapter
GenerateChapter(out, unwritable, chapter) ==
    ChapterFile(chapter,
                GenerateSequentials([out |-> out, refs |-> <<>>], unwritable,
                                    chapter.sequentials),
                unwritable)

\* generate, lines 42-50: a chapter that raises is recorded and the next
\* chapter is generated
RECURSIVE GenerateChapters(_, _, _)
GenerateChapters(out, unwritable, chapters) ==
    IF chapters = <<>> THEN out
    ELSE GenerateChapters(
             [GenerateChapter(out, unwritable, Head(chapters)) EXCEPT !.error = ""],
             unwritable, Tail(chapters))

HasFile(out, dir, name, ext) == \E f \in out.files : PathOf(f) = Path(dir, name, ext)

\* _validate_chapter_files, lines 422-435: an empty chapter file for a
\* chapter without a file; a placeholder that cannot be written is given up
Placeholder(out, unwritable, chapter) ==
    [WriteFile(out, unwritable, File("chapter", chapter.url_name, "xml", <<>>, ""))
        EXCEPT !.error = ""]

\* _validate_chapter_files
RECURSIVE ValidateChapterFiles(_, _, _)
ValidateChapterFiles(out, unwritable, chapters) ==
    IF chapters = <<>> THEN out
    ELSE ValidateChapterFiles(
             IF HasFile(out, "chapter", Head(chapters).url_name, "xml") THEN out
             ELSE Placeholder(out, unwritable, Head(chapters)),
             unwritable, Tail(chapters))

\* _create_directories
CreateDirectories(out) == [out EXCEPT !.dirs = @ \cup OlxDirectories]

\* _generate_course_xml and _generate_course_definition: the course file
\* refers to every chapter of the tree
GenerateCourse(out, unwritable, chapters) ==
    WriteFile(WriteFile(out, unwritable, File("", Str_course, "xml", <<Str_run>>, "")),
              unwritable,
              File("course", Str_run, "xml",
                   [k \in DOMAIN chapters |-> chapters[k].url_name], ""))

\* _generate_policies and _generate_about_page
GeneratePolicies(out, unwritable) ==
    IF out.error # "" THEN out
    ELSE WriteFile(
           WriteFile(
             WriteFile([out EXCEPT !.dirs = @ \cup {"policies/run"}], unwritable,
                       File("policies/run", Str_grading_policy, "json", <<>>, "")),
             unwritable, File("policies/run", Str_policy, "json", <<>>, "")),
           unwritable, File("about", Str_overview, "html", <<>>, ""))

UpdatesText(front_page) ==
    IF front_page = "found" THEN "<ol><li>front page</li></ol>" ELSE "<ol></ol>"

\* _generate_info_updates: course_ir.front_page_content is an attribute that
\* CanvasToIRConverter.convert sets (line 87) only when the archive has a
\* front page; CourseIR does not declare it, so reading it raises when it
\* was not set
GenerateInfoUpdates(out, unwritable, front_page) ==
    IF out.error # "" THEN out
    ELSE IF front_page = "none" THEN [out EXCEPT !.error = "AttributeError"]
    ELSE WriteFile(out, unwritable,
                   File("info", Str_updates, "html", <<>>, UpdatesText(front_page)))

\* _generate_assets_xml
GenerateAssetsXml(out, unwritable) ==
    WriteFile(out, unwritable, File("assets", Str_assets, "xml", <<>>, "<assets/>"))

\* generate, lines 42-53: the chapters and their validation
GenerateAllChapters(out, unwritable, chapters) ==
    IF out.error # "" THEN out
    ELSE ValidateChapterFiles(GenerateChapters(out, unwritable, chapters),
                              unwritable, chapters)

\* OLXGenerator.generate on the tree of a course
OlxGenerate(out, unwritable, chapters, front_page) ==
    GenerateAssetsXml(
        GenerateInfoUpdates(
            GeneratePolicies(
                GenerateAllChapters(
                    GenerateCourse(CreateDirectories(out), unwritable, chapters),
                    unwritable, chapters),
                unwritable),
            unwritable, front_page),
        unwritable)

\* _generate_report, lines 118-122: skipped items counted by type
SkippedByType(skipped) ==
    [t \in {skipped[k].type : k \in DOMAIN skipped} |->
        Cardinality({k \in DOMAIN skipped : skipped[k].type = t})]

\* _generate_report, lines 105-116 and 128-134: the numbers of nodes
RECURSIVE CountVerticals(_)
CountVerticals(chapters) ==
    IF chapters = <<>> THEN 0
    ELSE Sum([q \in DOMAIN Head(chapters).sequentials |->
                 Len(Head(chapters).sequentials[q].verticals)])
         + CountVerticals(Tail(chapters))

RECURSIVE CountComponents(_)
CountComponents(chapters) ==
    IF chapters = <<>> THEN 0
    ELSE Sum([q \in DOMAIN Head(chapters).sequentials |->
                 Sum([v \in DOMAIN Head(chapters).sequentials[q].verticals |->
                         Len(Head(chapters).sequentials[q].verticals[v].components)])])
         + CountComponents(Tail(chapters))

GenerateReportUnitsAsComponents(chapters, skipped_items, asset_count) ==
    [statistics |-> [chapters |-> Len(chapters),
                     sequentials |-> Sum([k \in DOMAIN chapters |->
                                             Len(chapters[k].sequentials)]),
                     verticals |-> CountVerticals(chapters),
                     components |-> CountVerticals(chapters),
                     assets |-> asset_count],
     skipped |-> SkippedByType(skipped_items)]

\* _generate_report
GenerateReport(chapters, skipped_items, asset_count) ==
    [statistics |-> [chapters |-> Len(chapters),
                     sequentials |-> Sum([k \in DOMAIN chapters |->
                                             Len(chapters[k].sequentials)]),
                     verticals |-> CountVerticals(chapters),
                     components |-> CountComponents(chapters),
                     assets |-> asset_count],
     skipped |-> SkippedByType(skipped_items)]

\* The stages of CanvasToOpenEdXConverter.convert thread a record: the
\* converter object, the exception on its way up ("" when there is none),
\* the tree and the item log, whether the extraction directory exists, and
\* the output directory.
RunFailedWithOutput(c, error, temp_dir) ==
    [conv |-> c, error |-> error, chapters |-> <<>>, log |-> <<>>,
     temp_created |-> temp_dir, temp_dir |-> temp_dir,
     output |-> CreateDirectories(EmptyOutput)]

\* the run after CanvasParser.parse: nothing is converted or written yet;
\* temp_created tells whether the call made an extraction directory,
\* temp_dir whether one exists
RunFailed(c, error, temp_dir) ==
    [conv |-> c, error |-> error, chapters |-> <<>>, log |-> <<>>,
     temp_created |-> temp_dir, temp_dir |-> temp_dir,
     output |-> EmptyOutput]

\* CanvasParser.parse, lines 34-69: FileNotFoundError before mkdtemp,
\* ValueError of _parse_manifest and the ParseError of malformed course
\* settings or module metadata after the extraction
ParseStage(c, e) ==
    IF ~e.path_exists THEN RunFailed(c, "FileNotFoundError", FALSE)
    ELSE IF ~e.manifest THEN RunFailed(c, "ValueError", TRUE)
    ELSE IF ~e.metadata_ok THEN RunFailed(c, "ParseError", TRUE)
    ELSE RunFailed(c, "", TRUE)

WithTree(run, r) ==
    [run EXCEPT !.conv = r.conv, !.chapters = r.chapters, !.log = r.log]

\* CanvasToIRConverter.convert; get_front_page (line 81) runs after
\* _build_identifier_map and is not inside a try
TreeStage(run, e, modules) ==
    IF run.error # "" THEN run
    ELSE IF e.front_page = "unreadable"
    THEN [run EXCEPT !.conv = BuildIdentifierMap(run.conv, modules),
                     !.error = "UnicodeDecodeError"]
    ELSE WithTree(run, ConvertToIR(run.conv, modules))

\* AssetManager.copy_all_assets, converter.py line 76
AssetStage(run, e) ==
    IF run.error # "" THEN run
    ELSE [run EXCEPT !.output.dirs = @ \cup {"static"},
                     !.error = IF e.assets_ok THEN "" ELSE "OSError"]

WithOutput(run, out) ==
    [run EXCEPT !.output = [out EXCEPT !.error = ""], !.error = out.error]

\* OLXGenerator.generate, converter.py lines 82-83
OlxStage(run, e) ==
    IF run.error # "" THEN run
    ELSE WithOutput(run, OlxGenerate(run.output, e.unwritable, run.chapters,
                                     e.front_page))

ParserExitOnSuccess(run) ==
    IF run.error = "" THEN [run EXCEPT !.temp_dir = FALSE] ELSE run

\* CanvasParser.__exit__ and cleanup: the with statement of converter.py
\* line 46 runs it however its body ends
ParserExit(run) == [run EXCEPT !.temp_dir = FALSE]

\* CanvasToOpenEdXConverter.convert on the converter object c: what the call
\* found in the object (start), the exception it raised or the report it
\* returned, the tree it built, the ledger, the output directory
ReportOf(c, via, run) ==
    [conv |-> run.conv,
     result |-> [via |-> via,
                 start |-> [used_names |-> c.used_names,
                            skipped_items |-> c.skipped_items,
                            timed_quizzes |-> c.timed_quizzes],
                 error |-> run.error,
                 chapters |-> run.chapters,
                 log |-> run.log,
                 skipped_items |-> run.conv.skipped_items,
                 timed_quizzes |-> run.conv.timed_quizzes,
                 identifier_to_url_name |-> run.conv.identifier_to_url_name,
                 temp_created |-> run.temp_created,
                 temp_dir |-> run.temp_dir,
                 output |-> run.output,
                 report |-> IF run.error = ""
                            THEN <<GenerateReport(run.chapters,
                                                  run.conv.skipped_items, 0)>>
                            ELSE <<>>]]

ConvertResult(c, e, modules, via) ==
    ReportOf(c, via,
        ParserExit(OlxStage(AssetStage(TreeStage(ParseStage(c, e), e, modules),
                                       e), e)))

\* converter.convert(imscc_path, output_dir) on the current converter object
\* the converter object keeps what the call left in it
KeepConverter(r) ==
    /\ conv' = r.conv
    /\ results' = Append(results, r.result)
    /\ UNCHANGED <<archive, env, genVars, calcVars>>

Convert == KeepConverter(ConvertResult(conv, env, archive, "method"))

ConvertCanvasToOpenedxShared == KeepConverter(ConvertResult(conv, env, archive, "function"))

\* convert_canvas_to_openedx(imscc_path, output_dir): a new converter object
\* of its own, then convert
ConvertCanvasToOpenedx ==
    /\ results' = Append(results, ConvertResult(NewIRConverter, env, archive, "function").result)
    /\ UNCHANGED <<conv, archive, env, genVars, calcVars>>

\* a converter object has been constructed for an archive on disk
Init ==
    /\ archive \in Archives
    /\ env \in NormalEnvs
    /\ conv = NewIRConverter
    /\ results = <<>>
    /\ used_names = {}
    /\ hist = <<>>
    /\ calc = <<>>

\* one conversion of any archive
Next == results = <<>> /\ Convert

Spec == Init /\ [][Next]_vars

\* a converter object for an archive that may hold malformed files
FaultsInit ==
    /\ archive \in FaultArchives
    /\ env \in NormalEnvs
    /\ conv = NewIRConverter
    /\ results = <<>>
    /\ used_names = {}
    /\ hist = <<>>
    /\ calc = <<>>

SpecFaults == FaultsInit /\ [][Next]_vars

\* the archives on disk and the failures of the stages: an archive path that
\* does not exist, an archive without manifest, malformed metadata, a front
\* page that is there, empty, absent or not decodable, assets that cannot
\* be copied
PipelineEnvs ==
    {Env(pe, ma, me, fp, ao, {}) :
        pe \in BOOLEAN, ma \in BOOLEAN, me \in BOOLEAN,
        fp \in {"found", "empty", "none", "unreadable"}, ao \in BOOLEAN}

PipelineInit ==
    /\ archive \in RunArchives
    /\ env \in PipelineEnvs
    /\ conv = NewIRConverter
    /\ results = <<>>
    /\ used_names = {}
    /\ hist = <<>>
    /\ calc = <<>>

\* the files of the nodes of a tree: those OLXGenerator writes for it in the
\* chapter, sequential, vertical and component directories
NodeDirectories ==
    {"chapter", "sequential", "vertical", "html", "problem", "openassessment"}

NodePaths(chapters) ==
    {PathOf(f) : f \in {g \in OlxGenerate(EmptyOutput, {}, chapters, "found").files :
                            g.dir \in NodeDirectories}}

\* up to MaxFaults files of the nodes of the archive cannot be written
FaultSets(modules) ==
    {u \in SUBSET NodePaths(ConvertToIR(NewIRConverter, modules).chapters) :
        Cardinality(u) <= MaxFaults}

OlxInit ==
    /\ archive \in RunArchives
    /\ env \in {Env(TRUE, TRUE, TRUE, "found", TRUE, u) : u \in FaultSets(archive)}
    /\ conv = NewIRConverter
    /\ results = <<>>
    /\ used_names = {}
    /\ hist = <<>>
    /\ calc = <<>>

SpecOlx == OlxInit /\ [][Next]_vars

\* archives of modules that declare prerequisites: up to two per module,
\* the first naming any module of the archive or a module that is not there
Title_P == <<"P">>

PrerequisiteLists(n) ==
    {<<>>} \cup {<<a>> : a \in 1..(n + 1)} \cup {<<a, 1>> : a \in 1..(n + 1)}

PrerequisiteArchives ==
    UNION {[1..n -> [title : {Title_M, Title_P},
                     prerequisites : PrerequisiteLists(n),
                     items : {<<>>}]] : n \in 1..MaxModules}

PrerequisitesInit ==
    /\ archive \in PrerequisiteArchives
    /\ env \in NormalEnvs
    /\ conv = NewIRConverter
    /\ results = <<>>
    /\ used_names = {}
    /\ hist = <<>>
    /\ calc = <<>>

SpecPrerequisites == PrerequisitesInit /\ [][Next]_vars

\* items with a content reference, with and without the identifier
\* attribute of the item element, and an item without reference
WithoutIdentifier(item) == [item EXCEPT !.has_id = FALSE]

LinkItemUniverse ==
    { Item("WikiPage", Title_M, TRUE, TRUE, FALSE, 0, 0, ""),
      WithoutIdentifier(Item("WikiPage", Title_M, TRUE, TRUE, FALSE, 0, 0, "")),
      Item("Quizzes::Quiz", Title_P, TRUE, FALSE, TRUE, 1, 0, ""),
      WithoutIdentifier(Item("Quizzes::Quiz", Title_P, TRUE, FALSE, TRUE, 1, 0, "")),
      Item("ExternalUrl", Title_M, FALSE, FALSE, FALSE, 0, 0, "http://site") }

LinksInit ==
    /\ archive \in UNION {ArchivesOfShape(sh, LinkItemUniverse) : sh \in Shapes}
    /\ env \in NormalEnvs
    /\ conv = NewIRConverter
    /\ results = <<>>
    /\ used_names = {}
    /\ hist = <<>>
    /\ calc = <<>>

SpecLinks == LinksInit /\ [][Next]_vars

RunsInit ==
    /\ archive \in RunArchives
    /\ env \in NormalEnvs
    /\ conv = NewIRConverter
    /\ results = <<>>
    /\ used_names = {}
    /\ hist = <<>>
    /\ calc = <<>>

\* several conversions of one archive, on the same converter object or
\* through convert_canvas_to_openedx
RunsNext ==
    \/ Len(results) < MaxRuns /\ Convert
    \/ Len(results) < MaxRuns /\ ConvertCanvasToOpenedx

SpecRuns == RunsInit /\ [][RunsNext]_vars

SpecPipeline == PipelineInit /\ [][RunsNext]_vars

\* the url_names of all nodes of a tree, in traversal order
ComponentIds(components) == [k \in DOMAIN components |-> components[k].url_name]

RECURSIVE VerticalIds(_)
VerticalIds(verticals) ==
    IF verticals = <<>> THEN <<>>
    ELSE <<Head(verticals).url_name>> \o ComponentIds(Head(verticals).components)
         \o VerticalIds(Tail(verticals))

RECURSIVE SequentialIds(_)
SequentialIds(sequentials) ==
    IF sequentials = <<>> THEN <<>>
    ELSE <<Head(sequentials).url_name>> \o VerticalIds(Head(sequentials).verticals)
         \o SequentialIds(Tail(sequentials))

RECURSIVE NodeIds(_)
NodeIds(chapters) ==
    IF chapters = <<>> THEN <<>>
    ELSE <<Head(chapters).url_name>> \o SequentialIds(Head(chapters).sequentials)
         \o NodeIds(Tail(chapters))

----------------------------------------------------------------------------
(* Claims about URLNameGenerator *)

\* the registry right after call i of the run
RegistryAfter(i) == IF i < Len(hist) THEN hist[i + 1].before ELSE used_names

\* C1: every generate call of a run returns a token that was not in the
\* registry before the call and is in it afterwards, so no two calls of a
\* run return the same token.
C1_FreshToken ==
    /\ \A i \in 1..Len(hist) :
          /\ hist[i].name \notin hist[i].before
          /\ RegistryAfter(i) = hist[i].before \cup {hist[i].name}
    /\ \A i, j \in 1..Len(hist) : i < j => hist[i].name # hist[j].name

\* two calls whose normalised titles collide
C1_Witness ==
    \E i, j \in 1..Len(hist) :
        i < j /\ hist[i].original = hist[j].original /\ hist[j].iters >= 1

\* C2: every returned token has length <= max_length.
C2_LengthBound ==
    \A i \in 1..Len(hist) : Len(hist[i].name) <= hist[i].max

\* C3: two calls with the same title and max_length (hence the same
\* original_name) return distinct tokens, the second being a prefix of the
\* first followed by _k, k the smallest positive counter whose candidate is
\* not registered.
C3_SuffixOnly ==
    \A i, j \in 1..Len(hist) :
        (i < j /\ hist[i].original = hist[j].original /\ hist[i].max = hist[j].max) =>
            LET k == hist[j].iters
                o == hist[j].original
                m == hist[j].max
            IN  /\ hist[i].name # hist[j].name
                /\ k >= 1
                /\ \E n \in 0..Len(hist[i].name) :
                      hist[j].name = SubSeq(hist[i].name, 1, n) \o SuffixOf(k)
                /\ \A c \in 1..(k - 1) : Candidate(o, m, c) \in hist[j].before
                /\ Candidate(o, m, k) \notin hist[j].before

\* C4: generate always ends, within |registry|+1 loop bodies, trying
\* pairwise distinct candidates, and degenerate (empty) names still get
\* pairwise distinct tokens.
C4_Terminates ==
    /\ \A i \in 1..Len(hist) :
          /\ hist[i].done
          /\ hist[i].iters <= Cardinality(hist[i].before) + 1
          /\ \A c, d \in 1..hist[i].iters :
                c # d => Candidate(hist[i].original, hist[i].max, c)
                           # Candidate(hist[i].original, hist[i].max, d)
    /\ \A i, j \in 1..Len(hist) :
          (i < j /\ hist[i].original = <<>> /\ hist[j].original = <<>>)
              => hist[i].name # hist[j].name

\* a degenerate title collides, and a call needs |registry|+1 loop bodies
C4_Witness ==
    \/ \E i \in 1..Len(hist) : hist[i].original = <<>> /\ hist[i].iters >= 1
    \/ \E i \in 1..Len(hist) :
          hist[i].iters = Cardinality(hist[i].before) + 1

----------------------------------------------------------------------------
(* Claims about the conversion *)

RECURSIVE HasDuplicates(_)
HasDuplicates(s) ==
    /\ s # <<>>
    /\ \/ \E k \in 2..Len(s) : s[k] = Head(s)
       \/ HasDuplicates(Tail(s))

RECURSIVE EntriesOfType(_, _)
EntriesOfType(skipped, t) ==
    IF skipped = <<>> THEN <<>>
    ELSE (IF Head(skipped).type = t THEN <<Head(skipped)>> ELSE <<>>)
         \o EntriesOfType(Tail(skipped), t)

C6_NoPersistence ==
    \A j \in DOMAIN results :
        /\ results[j].start.used_names = {}
        /\ results[j].start.skipped_items = <<>>
        /\ results[j].start.timed_quizzes = <<>>
        /\ NodeIds(results[j].chapters) = NodeIds(results[1].chapters)
        /\ results[j].report = results[1].report

\* C7: the identifiers of all nodes of the tree of one convert() call are
\* pairwise distinct.
C7_UniqueIdentifiers ==
    \A j \in DOMAIN results : ~HasDuplicates(NodeIds(results[j].chapters))

\* C8: no Unit of the returned tree is without Components, and an item that
\* yields no Component yields no Unit.
C8_NoEmptyUnit ==
    \A j \in DOMAIN results :
        /\ \A c \in DOMAIN results[j].chapters :
              \A q \in DOMAIN results[j].chapters[c].sequentials :
                  LET verticals == results[j].chapters[c].sequentials[q].verticals
                  IN  \A v \in DOMAIN verticals : verticals[v].components # <<>>
        /\ \A k \in DOMAIN results[j].log :
              results[j].log[k].unit <=> results[j].log[k].components > 0

\* a run in which one item gave no Component and another gave a Unit
C8_Witness ==
    \E j \in DOMAIN results : \E k, l \in DOMAIN results[j].log :
        /\ results[j].log[k].item.content_type \in {"WikiPage", "Quizzes::Quiz"}
        /\ results[j].log[k].components = 0
        /\ results[j].log[l].unit

\* the items C9 is about, and the type label it gives them
IsUnsupported(item) ==
    /\ item.content_type \notin {"", "WikiPage", "Assignment", "Quizzes::Quiz"}
    /\ ~(item.has_ref /\ item.qti_file)

TypeLabel(content_type) ==
    CASE content_type = "ContextExternalTool" -> "LTI Tool"
      [] content_type \in {"DiscussionTopic", "Discussion"} -> "Discussion Topic"
      [] content_type = "ExternalUrl" -> "External URL"
      [] OTHER -> content_type

\* C9: an unsupported item gives no Unit and appends exactly one entry
\* {type-label, title, url} to the ledger; entries are in traversal order
\* and stay in the ledger.
C9_LedgerEntry ==
    \A j \in DOMAIN results :
        LET log == results[j].log
            ledger == results[j].skipped_items
        IN  /\ \A k \in DOMAIN log :
                  IsUnsupported(log[k].item) =>
                      /\ ~log[k].unit
                      /\ log[k].skipped_after = log[k].skipped_before + 1
                      /\ log[k].skipped_after <= Len(ledger)
                      /\ ledger[log[k].skipped_after]
                           = [type |-> TypeLabel(log[k].item.content_type),
                              title |-> log[k].item.title,
                              url |-> log[k].item.url]
            /\ \A k, l \in DOMAIN log :
                  k < l => log[k].skipped_after <= log[l].skipped_before

\* a run with an external URL item and two ledger entries
C9_Witness ==
    \E j \in DOMAIN results :
        /\ Len(results[j].skipped_items) >= 2
        /\ \E k \in DOMAIN results[j].log :
              results[j].log[k].item.content_type = "ExternalUrl"

IsImportNotes(chapter) == chapter.display_name = Str_ImportNotes

\* C10: the Import Notes chapter is there iff the ledger is non-empty, once,
\* last, with one Sequence, one Unit and one content block that lists every
\* ledger entry grouped by type label, labels sorted, entries in ledger order.
C10_ImportNotes ==
    \A j \in DOMAIN results :
        LET chapters == results[j].chapters
            ledger == results[j].skipped_items
            notes == {k \in DOMAIN chapters : IsImportNotes(chapters[k])}
        IN  /\ ledger = <<>> => notes = {} /\ Len(chapters) = Len(archive)
            /\ ledger # <<>> =>
                 /\ notes = {Len(chapters)}
                 /\ Len(chapters) = Len(archive) + 1
                 /\ LET c == chapters[Len(chapters)] IN
                    /\ Len(c.sequentials) = 1
                    /\ Len(c.sequentials[1].verticals) = 1
                    /\ Len(c.sequentials[1].verticals[1].components) = 1
                    /\ LET b == c.sequentials[1].verticals[1].components[1] IN
                       /\ b.type = "html"
                       /\ {b.content[g].type : g \in DOMAIN b.content}
                            = {ledger[k].type : k \in DOMAIN ledger}
                       /\ \A g, h \in DOMAIN b.content :
                             g < h => LabelBefore(b.content[g].type, b.content[h].type)
                       /\ \A g \in DOMAIN b.content :
                             b.content[g].items = EntriesOfType(ledger, b.content[g].type)

\* a run whose ledger has two type labels, the later label first
C10_Witness ==
    \E j \in DOMAIN results :
        LET ledger == results[j].skipped_items
        IN  /\ Len(ledger) >= 2
            /\ LabelBefore(ledger[2].type, ledger[1].type)
            /\ IsImportNotes(results[j].chapters[Len(results[j].chapters)])

----------------------------------------------------------------------------
(* Claims about items that fail or produce nothing *)

\* the item that produces nothing in the place of an item that raises
QuietItem(item) ==
    IF ContentRaises(EffectiveContentType(item), item)
    THEN [item EXCEPT !.raises = FALSE, !.found = FALSE, !.qti_file = FALSE]
    ELSE item

QuietArchive(modules) ==
    [mi \in DOMAIN modules |->
        [title |-> modules[mi].title,
         prerequisites |-> modules[mi].prerequisites,
         items |-> [ii \in DOMAIN modules[mi].items |->
                       QuietItem(modules[mi].items[ii])]]]

\* C11: an exception of one item does not end convert(); the item gets no
\* Unit and leaves the ledger alone, and the tree is the one of the archive
\* in which the failed items produce nothing.
C11_ItemFailureContained ==
    \A j \in DOMAIN results :
        /\ \A k \in DOMAIN results[j].log :
              results[j].log[k].raised =>
                  /\ ~results[j].log[k].unit
                  /\ results[j].log[k].skipped_after
                       = results[j].log[k].skipped_before
        /\ Len(results[j].log) = Sum([mi \in DOMAIN archive |->
                                         Len(archive[mi].items)])
        /\ results[j].chapters
             = ConvertToIR(NewIRConverter, QuietArchive(archive)).chapters
        /\ results[j].skipped_items
             = ConvertToIR(NewIRConverter, QuietArchive(archive)).conv.skipped_items

\* an item raised and a later item of the run still became a Unit
C11_Witness ==
    \E j \in DOMAIN results : \E k, l \in DOMAIN results[j].log :
        /\ k < l
        /\ results[j].log[k].raised
        /\ results[j].log[l].unit

\* a quiz whose question file is absent, or present with no question in it
QuizWithoutQuestions(item) ==
    /\ EffectiveContentType(item) = "Quizzes::Quiz"
    /\ ~item.raises
    /\ (~item.qti_file \/ item.questions = 0)

\* the files of the output directory at a path
FilesAt(output, dir, name, ext) ==
    {f \in output.files : PathOf(f) = Path(dir, name, ext)}

OwnTimeLimitTitle(item) ==
    IF item.time_limit > 0
    THEN item.title \o <<" ", "(">> \o Dec(item.time_limit) \o Str_min_time_limit
    ELSE item.title

\* C13: the display title of a quiz Unit carries the annotation
\* " (T min time limit)" exactly when the quiz's own metadata gives a
\* positive time limit, with T that limit, whatever quizzes came before it.
C13_OwnTimeLimit ==
    \A j \in DOMAIN results : \A k \in DOMAIN results[j].log :
        (/\ EffectiveContentType(results[j].log[k].item) = "Quizzes::Quiz"
         /\ results[j].log[k].unit)
        => results[j].log[k].display_name
             = OwnTimeLimitTitle(results[j].log[k].item)

----------------------------------------------------------------------------
(* The rubric of an open-response assignment *)

MaxPoints == 9
MaxRubrics == 2

\* _convert_assignment_to_ora, lines 481-483; points_possible is 0 when the
\* settings have none (canvas_parser.py line 310)
RubricMaxPoints(points) == IF points = 0 \/ points <= 0 THEN 3 ELSE points

\* lines 486-491: the points of the four options
Scale(max_points) ==
    <<0, Max(1, max_points \div 3), Max(2, (max_points * 2) \div 3), max_points>>

RubricOptions(points) == Scale(RubricMaxPoints(points))

\* one assignment with a text-entry or file-upload submission type
ConvertAssignmentToOra(points) ==
    /\ calc' = Append(calc, [points |-> points, options |-> RubricOptions(points)])
    /\ UNCHANGED <<genVars, convVars>>

RubricInit ==
    /\ calc = <<>>
    /\ used_names = {}
    /\ hist = <<>>
    /\ ConvIdle

RubricNext ==
    \E points \in (0 - MaxPoints)..MaxPoints :
        Len(calc) < MaxRubrics /\ ConvertAssignmentToOra(points)

SpecRubric == RubricInit /\ [][RubricNext]_vars

\* C14: for a positive point value P the rubric has four options, from 0 to
\* P, strictly increasing, none above P; P = 6 gives 0, 2, 4, 6; a missing
\* or non-positive value gives the options of P = 3.
C14_RubricScale ==
    \A k \in DOMAIN calc :
        /\ Len(calc[k].options) = 4
        /\ calc[k].points > 0 =>
              /\ calc[k].options[1] = 0
              /\ calc[k].options[4] = calc[k].points
              /\ \A i \in 1..3 : calc[k].options[i] < calc[k].options[i + 1]
              /\ \A i \in 1..4 : calc[k].options[i] <= calc[k].points
        /\ calc[k].points = 6 => calc[k].options = <<0, 2, 4, 6>>
        /\ calc[k].points <= 0 => calc[k].options = <<0, 1, 2, 3>>

----------------------------------------------------------------------------
(* Numerical questions: QTIParser and QTIToCapaConverter *)

MaxValue == 2
MaxNumericals == 1

\* The values of a question file are whole numbers; a float of the code is
\* kept as twice its value, so that midpoints and half-widths are integers.
Float(n) == 2 * n

Values == (0 - MaxValue)..MaxValue

\* a respcondition of full credit: zero or one varequal, zero or one
\* <and> of vargte and varlte
Conditions ==
    [varequal : {<<>>} \cup {<<v>> : v \in Values},
     range : {<<>>} \cup {<<lo, hi>> : lo \in Values, hi \in Values}]

\* _extract_numerical_values, lines 654-661: a value of zero is not kept
ExactValues(condition) ==
    IF condition.varequal # <<>> /\ Float(condition.varequal[1]) # 0
    THEN <<Float(condition.varequal[1])>>
    ELSE <<>>

\* _extract_numerical_values, lines 668-684: the range from zero to zero is
\* not kept
AnswerRanges(condition) ==
    IF /\ condition.range # <<>>
       /\ (Float(condition.range[1]) # 0 \/ Float(condition.range[2]) # 0)
    THEN <<<<Float(condition.range[1]), Float(condition.range[2])>>>>
    ELSE <<>>

\* lines 619-627: the first exact answer inside the range
RECURSIVE MatchingAnswer(_, _)
MatchingAnswer(correct_answers, range) ==
    IF correct_answers = <<>> THEN <<>>
    ELSE IF range[1] <= Head(correct_answers) /\ Head(correct_answers) <= range[2]
    THEN <<Head(correct_answers)>>
    ELSE MatchingAnswer(Tail(correct_answers), range)

\* lines 629-631: the midpoint where no exact answer is inside the range
AnswerOf(matching, range) ==
    IF matching = <<>> THEN (range[1] + range[2]) \div 2 ELSE matching[1]

\* lines 614-638: answer and tolerance from the first range
WithRange(correct_answers, range) ==
    [correct_answers |->
         IF correct_answers = <<>>
         THEN <<AnswerOf(MatchingAnswer(correct_answers, range), range)>>
         ELSE correct_answers,
     tolerance |-> <<(range[2] - range[1]) \div 2>>]

\* _parse_numerical_answers on the fields of the question
NumericalAnswers(correct_answers, answer_ranges) ==
    IF answer_ranges # <<>> THEN WithRange(correct_answers, Head(answer_ranges))
    ELSE [correct_answers |-> correct_answers, tolerance |-> <<>>]

ParseNumericalAnswers(condition) ==
    NumericalAnswers(ExactValues(condition), AnswerRanges(condition))

\* _convert_numerical: the answer attribute and the tolerance parameter of
\* the numericalresponse, each as zero or one values
ConvertNumerical(question) ==
    IF question.correct_answers = <<>>
    THEN [answer |-> <<>>, tolerance |-> <<>>]
    ELSE [answer |-> <<question.correct_answers[1]>>,
          tolerance |-> question.tolerance]

\* one numerical question parsed and converted
NumericalQuestion(condition) ==
    /\ calc' = Append(calc, [condition |-> condition,
                             emitted |-> ConvertNumerical(
                                             ParseNumericalAnswers(condition))])
    /\ UNCHANGED <<genVars, convVars>>

NumericalInit ==
    /\ calc = <<>>
    /\ used_names = {}
    /\ hist = <<>>
    /\ ConvIdle

NumericalNext ==
    \E condition \in Conditions :
        Len(calc) < MaxNumericals /\ NumericalQuestion(condition)

SpecNumerical == NumericalInit /\ [][NumericalNext]_vars

\* the half-width of a range, as a float
HalfWidth(range) == (Float(range[2]) - Float(range[1])) \div 2

\* C15: with an exact value v and a range [lo, hi] around it the answer is
\* v and the tolerance (hi-lo)/2; with a range alone the answer is the
\* midpoint and the tolerance (hi-lo)/2; zero and negative values included.
C15_AnswerAndTolerance ==
    \A k \in DOMAIN calc :
        LET condition == calc[k].condition
        IN  /\ (/\ condition.varequal # <<>>
                /\ condition.range # <<>>
                /\ condition.range[1] <= condition.varequal[1]
                /\ condition.varequal[1] <= condition.range[2])
               => /\ calc[k].emitted.answer = <<Float(condition.varequal[1])>>
                  /\ calc[k].emitted.tolerance = <<HalfWidth(condition.range)>>
            /\ (/\ condition.varequal = <<>>
                /\ condition.range # <<>>
                /\ condition.range[1] <= condition.range[2])
               => /\ calc[k].emitted.answer
                       = <<(Float(condition.range[1]) + Float(condition.range[2]))
                           \div 2>>
                  /\ calc[k].emitted.tolerance = <<HalfWidth(condition.range)>>

----------------------------------------------------------------------------
(* Claims about the stages of a run *)

\* C16: an archive path that does not exist gives the not-found error and an
\* archive without manifest the format error, and then nothing is
\* converted, copied or written under the output directory.
C16_ParseErrors ==
    \A j \in DOMAIN results :
        /\ ~env.path_exists => results[j].error = "FileNotFoundError"
        /\ env.path_exists /\ ~env.manifest => results[j].error = "ValueError"
        /\ ~env.path_exists \/ ~env.manifest =>
              /\ results[j].output = EmptyOutput
              /\ results[j].chapters = <<>>
              /\ results[j].log = <<>>
              /\ results[j].report = <<>>
              /\ results[j].skipped_items = results[j].start.skipped_items
              /\ results[j].timed_quizzes = results[j].start.timed_quizzes

\* an archive without manifest that would otherwise have been converted,
\* given to the same converter twice
C16_Witness ==
    /\ Len(results) = MaxRuns
    /\ archive # <<>>
    /\ env.path_exists /\ ~env.manifest
    /\ env.metadata_ok /\ env.assets_ok /\ env.front_page = "found"
    /\ results[1].temp_created
    /\ results[MaxRuns].error = "ValueError"

\* C17: the extraction directory a run created is gone when convert() has
\* returned or raised, whatever stage ended the run.
C17_TempDirRemoved ==
    \A j \in DOMAIN results :
        results[j].temp_created => ~results[j].temp_dir

\* a run that created the directory, built its tree, wrote chapters and
\* was ended by the serialization
C17_Witness ==
    /\ results # <<>>
    /\ results[1].temp_created
    /\ results[1].chapters # <<>>
    /\ results[1].output.files # {}
    /\ results[1].error = "AttributeError"

\* C19: the updates document is written with the front-page content when
\* the archive has a front page and with empty content when it has none,
\* and in both cases the serialization completes and the run returns its
\* report.
C19_UpdatesDocument ==
    \A j \in DOMAIN results :
        (/\ env.path_exists /\ env.manifest /\ env.metadata_ok /\ env.assets_ok
         /\ env.front_page \in {"found", "none"})
        => /\ FilesAt(results[j].output, "info", Str_updates, "html")
                = {File("info", Str_updates, "html", <<>>,
                        UpdatesText(env.front_page))}
           /\ results[j].error = ""
           /\ results[j].report # <<>>

\* the positions of the nodes of a tree
SequentialNodes(chapters) ==
    UNION {{<<c, q>> : q \in DOMAIN chapters[c].sequentials} : c \in DOMAIN chapters}

VerticalNodes(chapters) ==
    UNION {{<<n[1], n[2], v>> :
               v \in DOMAIN chapters[n[1]].sequentials[n[2]].verticals} :
           n \in SequentialNodes(chapters)}

ComponentNodes(chapters) ==
    UNION {{<<n[1], n[2], n[3], k>> :
               k \in DOMAIN chapters[n[1]].sequentials[n[2]].verticals[n[3]].components} :
           n \in VerticalNodes(chapters)}

\* the sum of the counts of a map
RECURSIVE MapTotal(_, _)
MapTotal(map, keys) ==
    IF keys = {} THEN 0
    ELSE LET t == CHOOSE t \in keys : TRUE
         IN map[t] + MapTotal(map, keys \ {t})

\* C20: the report of a run counts the chapters, sequences, units and
\* components of the tree of the run, the Import Notes chapter included,
\* and its skipped map gives per type-label the number of ledger entries
\* with that label, the counts adding up to the length of the ledger.
C20_ReportAgrees ==
    \A j \in DOMAIN results :
        results[j].report # <<>> =>
            /\ results[j].report[1].statistics.chapters
                 = Cardinality(DOMAIN results[j].chapters)
            /\ results[j].report[1].statistics.sequentials
                 = Cardinality(SequentialNodes(results[j].chapters))
            /\ results[j].report[1].statistics.verticals
                 = Cardinality(VerticalNodes(results[j].chapters))
            /\ results[j].report[1].statistics.components
                 = Cardinality(ComponentNodes(results[j].chapters))
            /\ DOMAIN results[j].report[1].skipped
                 = {results[j].skipped_items[k].type :
                        k \in DOMAIN results[j].skipped_items}
            /\ \A t \in DOMAIN results[j].report[1].skipped :
                  results[j].report[1].skipped[t]
                    = Cardinality({k \in DOMAIN results[j].skipped_items :
                                      results[j].skipped_items[k].type = t})
            /\ MapTotal(results[j].report[1].skipped,
                        DOMAIN results[j].report[1].skipped)
                 = Len(results[j].skipped_items)

\* a report of a tree with an Import Notes chapter and a Unit of several
\* components
C20_Witness ==
    \E j \in DOMAIN results :
        /\ results[j].report # <<>>
        /\ results[j].skipped_items # <<>>
        /\ \E c \in DOMAIN results[j].chapters : IsImportNotes(results[j].chapters[c])
        /\ results[j].report[1].statistics.components
             > results[j].report[1].statistics.verticals

\* the files a reference of a file of directory dir may point to
ChildDirectories(dir) ==
    IF dir = "course" THEN {"chapter"}
    ELSE IF dir = "chapter" THEN {"sequential"}
    ELSE IF dir = "sequential" THEN {"vertical"}
    ELSE IF dir = "vertical" THEN {"html", "problem", "openassessment"}
    ELSE {}

\* every reference of the files of directory dir has its file
ReferencesResolve(output, dir) ==
    \A f \in output.files :
        f.dir = dir =>
            \A r \in DOMAIN f.refs :
                \E d \in ChildDirectories(dir) : HasFile(output, d, f.refs[r], "xml")

\* C18: when generate() has returned, whatever Chapters or Components failed
\* to generate, every Chapter the course file refers to has a chapter file,
\* and the references to Sequences, Units and Components resolve.
C18_ReferentialConsistency ==
    \A j \in DOMAIN results :
        results[j].error = "" =>
            /\ ReferencesResolve(results[j].output, "course")
            /\ ReferencesResolve(results[j].output, "chapter")
            /\ ReferencesResolve(results[j].output, "sequential")
            /\ ReferencesResolve(results[j].output, "vertical")

----------------------------------------------------------------------------
(* Claims about identifiers that are referred to *)

\* C21: where the first prerequisite of a module names a module P of the
\* archive, the prerequisite reference of the module's Sequence is the
\* url_name of P's Chapter or of P's Sequence in the same tree; later
\* prerequisites count for nothing, and a first prerequisite that names no
\* module leaves the Sequence without reference.
C21_PrerequisiteReference ==
    \A j \in DOMAIN results : \A mi \in DOMAIN archive :
        mi \in DOMAIN results[j].chapters =>
            IF /\ archive[mi].prerequisites # <<>>
               /\ archive[mi].prerequisites[1] \in DOMAIN archive
            THEN \/ results[j].chapters[mi].sequentials[1].prereq
                      = <<results[j].chapters[archive[mi].prerequisites[1]].url_name>>
                 \/ results[j].chapters[mi].sequentials[1].prereq
                      = <<results[j].chapters[archive[mi].prerequisites[1]]
                              .sequentials[1].url_name>>
            ELSE results[j].chapters[mi].sequentials[1].prereq = <<>>

\* C22: the url_name recorded for an item with a content reference in the
\* identifier map of the run is the url_name of the Unit built for the
\* item, whether or not the item element has an identifier attribute.
C22_MapTokenIsUnitToken ==
    \A j \in DOMAIN results : \A k \in DOMAIN results[j].log :
        (results[j].log[k].item.has_ref /\ results[j].log[k].unit)
        => /\ FlatItems(archive, 1)[k].id \in DOMAIN results[j].identifier_to_url_name
           /\ results[j].log[k].url_name
                = results[j].identifier_to_url_name[FlatItems(archive, 1)[k].id]

----------------------------------------------------------------------------
(* The questions of a quiz: QTIToCapaConverter.convert_question and the
   question loop of CanvasToIRConverter._convert_quiz *)

MaxQuizQuestions == 2
MaxQuestionPoints == 2
MaxAttempts == 2

\* the type tags _get_question_type gives, and one tag no branch knows
QuestionTypes ==
    {"multiple_choice", "true_false", "multiple_response", "short_answer",
     "numerical", "essay", "matching_question",
     "fill_in_multiple_blanks_question", "multiple_dropdowns_question",
     "calculated_question", "file_upload_question", "text_only_question",
     "unknown", "hot_spot_question"}

\* a parsed question (qti_parser.py lines 185-200): identifier is the ident
\* attribute of the item element, None without it; correct_answers is
\* counted; points is a float
ParsedQuestion(type, has_identifier, correct_answers, points) ==
    [type |-> type, has_identifier |-> has_identifier,
     correct_answers |-> correct_answers, points |-> points]

\* what a converter returns: the root of the document it serialized, and
\* the type its placeholder names
Converted(document, kind, names_type) ==
    [raised |-> "", document |-> document, kind |-> kind,
     names_type |-> names_type]

Raised(error) == [raised |-> error, document |-> "", kind |-> "", names_type |-> ""]

\* _convert_essay_ora, lines 217-235: an openassessment element;
\* question.get('identifier', 'essay')[:32] subscripts None when the item
\* had no ident attribute
ConvertEssayOra(question, kind) ==
    IF ~question.has_identifier THEN Raised("TypeError")
    ELSE Converted("openassessment", kind, "")

\* _convert_short_answer, lines 146-176: without answers the document of
\* _convert_essay_ora is returned
ConvertShortAnswer(question, kind) ==
    IF question.correct_answers = 0 THEN ConvertEssayOra(question, kind)
    ELSE Converted("problem", kind, "")

\* _convert_unsupported, lines 519-540: a problem element whose note names
\* the type
ConvertUnsupported(question) == Converted("problem", "problem", question.type)

\* convert_question, lines 21-60: each branch returns the document of its
\* converter with the kind written in the branch
ConvertQuestion(question) ==
    IF question.type = "short_answer" THEN ConvertShortAnswer(question, "problem")
    ELSE IF question.type = "essay" THEN ConvertEssayOra(question, "openassessment")
    ELSE IF question.type = "text_only_question" THEN Converted("html", "html", "")
    ELSE IF question.type \in
              {"multiple_choice", "true_false", "multiple_response", "numerical",
               "matching_question", "fill_in_multiple_blanks_question",
               "multiple_dropdowns_question", "calculated_question",
               "file_upload_question"}
    THEN Converted("problem", "problem", "")
    ELSE ConvertUnsupported(question)

\* an absent setting is the empty sequence
NoSettings == [max_attempts |-> <<>>, showanswer |-> <<>>, weight |-> <<>>]

\* _parse_assessment_meta, lines 661-735: {} without the file and when the
\* file does not parse; max_attempts only for a positive allowed_attempts;
\* show_correct_answers always
ParseAssessmentMeta(quiz) ==
    IF quiz.meta # "parsed" THEN [empty |-> TRUE, max_attempts |-> <<>>,
                                  show_correct_answers |-> FALSE]
    ELSE [empty |-> FALSE,
          max_attempts |-> IF quiz.allowed_attempts > 0
                           THEN <<quiz.allowed_attempts>> ELSE <<>>,
          show_correct_answers |-> quiz.show_correct_answers]

\* the settings given to a component of any kind
QuestionSettingsEveryKind(component_type, quiz_settings, question) ==
    IF ~quiz_settings.empty
    THEN [max_attempts |-> quiz_settings.max_attempts,
          showanswer |-> IF quiz_settings.show_correct_answers
                         THEN <<"finished">> ELSE <<"never">>,
          weight |-> IF question.points # 0 THEN <<question.points>> ELSE <<>>]
    ELSE NoSettings

\* _convert_quiz, lines 615-624: the settings of one component
QuestionSettings(component_type, quiz_settings, question) ==
    IF component_type = "problem" /\ ~quiz_settings.empty
    THEN [max_attempts |-> quiz_settings.max_attempts,
          showanswer |-> IF quiz_settings.show_correct_answers
                         THEN <<"finished">> ELSE <<"never">>,
          weight |-> IF question.points # 0 THEN <<question.points>> ELSE <<>>]
    ELSE NoSettings

\* lines 626-635: the component of question i
QuestionComponent(st, question, i, converted, settings, g) ==
    [used_names |-> g.used,
     components |-> Append(st.components,
                           [question |-> i, settings |-> settings,
                            component |-> ComponentIR(converted.kind,
                                                      <<"Q">> \o Dec(i), g.name,
                                                      converted.document)]),
     failed_questions |-> st.failed_questions]

\* lines 610-639: a question whose conversion raises is counted and left out
QuestionDone(st, quiz, quiz_settings, i, converted) ==
    IF converted.raised # ""
    THEN [st EXCEPT !.failed_questions = @ + 1]
    ELSE QuestionComponent(st, quiz.questions[i], i, converted,
                           QuestionSettings(converted.kind, quiz_settings,
                                            quiz.questions[i]),
                           GenerateOp(st.used_names,
                                      quiz.title \o Str_q \o Dec(i),
                                      DefaultMaxLength))

RECURSIVE QuizQuestionLoop(_, _, _, _)
QuizQuestionLoop(st, quiz, quiz_settings, i) ==
    IF i > Len(quiz.questions) THEN st
    ELSE QuizQuestionLoop(
             QuestionDone(st, quiz, quiz_settings, i,
                          ConvertQuestion(quiz.questions[i])),
             quiz, quiz_settings, i + 1)

\* the component records of the loop
ComponentsOf(entries) == [k \in DOMAIN entries |-> entries[k].component]

\* the files _generate_vertical writes for the components
QuizOutput(entries) ==
    GenerateComponents([out |-> EmptyOutput, refs |-> <<>>], {},
                       ComponentsOf(entries)).out

QuizResult(quiz, st) ==
    [quiz |-> quiz, components |-> st.components,
     failed_questions |-> st.failed_questions,
     output |-> QuizOutput(st.components)]

\* one quiz with a question file: its questions converted, its components
\* written
ConvertQuizQuestions(quiz) ==
    /\ calc' = Append(calc,
                      QuizResult(quiz,
                                 QuizQuestionLoop(
                                     [used_names |-> {}, components |-> <<>>,
                                      failed_questions |-> 0],
                                     quiz, ParseAssessmentMeta(quiz), 1)))
    /\ UNCHANGED <<genVars, convVars>>

QuestionUniverse ==
    {ParsedQuestion(t, h, a, p) :
        t \in QuestionTypes, h \in BOOLEAN, a \in 0..1,
        p \in {0, MaxQuestionPoints}}
    \ {q \in [type : QuestionTypes, has_identifier : BOOLEAN,
              correct_answers : {0}, points : {0, MaxQuestionPoints}] :
          q.type # "short_answer"}

\* one type for each outcome of convert_question
OutcomeTypes ==
    {"multiple_choice", "short_answer", "essay", "text_only_question",
     "hot_spot_question"}

OutcomeQuestions == {q \in QuestionUniverse : q.type \in OutcomeTypes}

\* quizzes of one question of any type, and longer quizzes of questions
\* of the types of OutcomeTypes
QuestionLists(n) ==
    IF n = 1 THEN [1..n -> QuestionUniverse] ELSE [1..n -> OutcomeQuestions]

\* assessment_meta.xml: absent, unreadable, or read with its
\* allowed_attempts and show_correct_answers
MetaFile(meta, allowed_attempts, show_correct_answers) ==
    [meta |-> meta, allowed_attempts |-> allowed_attempts,
     show_correct_answers |-> show_correct_answers]

MetaFiles ==
    {MetaFile("parsed", a, s) : a \in {0 - 1, 0, MaxAttempts}, s \in BOOLEAN}
    \cup {MetaFile(m, 0, FALSE) : m \in {"absent", "malformed"}}

Quiz(questions, file) ==
    [title |-> <<"z">>, questions |-> questions, meta |-> file.meta,
     allowed_attempts |-> file.allowed_attempts,
     show_correct_answers |-> file.show_correct_answers]

QuizInit ==
    /\ calc = <<>>
    /\ used_names = {}
    /\ hist = <<>>
    /\ ConvIdle

QuizNext ==
    /\ calc = <<>>
    /\ \E n \in 1..MaxQuizQuestions :
           \E questions \in QuestionLists(n), file \in MetaFiles :
               ConvertQuizQuestions(Quiz(questions, file))

SpecQuiz == QuizInit /\ [][QuizNext]_vars

\* C23: the kind of every component of a quiz is the kind of the document
\* in it (a problem document is "problem", an openassessment document is
\* "openassessment", an HTML block is "html"), and the document is written
\* to the directory of its own kind; a short_answer question without
\* correct answers is an openassessment component in openassessment/.
C23_KindMatchesDocument ==
    \A j \in DOMAIN calc : \A k \in DOMAIN calc[j].components :
        /\ calc[j].components[k].component.type
             = calc[j].components[k].component.content
        /\ HasFile(calc[j].output, calc[j].components[k].component.content,
                   calc[j].components[k].component.url_name, "xml")

\* the kind the dispatch table of convert_question gives a type tag
TableKind(type) ==
    IF type = "text_only_question" THEN "html"
    ELSE IF type = "essay" THEN "openassessment"
    ELSE "problem"

KnownTypes == QuestionTypes \ {"unknown", "hot_spot_question"}

\* C24: convert_question gives every parsed question one document with the
\* kind of the dispatch table, a placeholder that names the type when the
\* type is not a known one; the Unit of a quiz has one component for each
\* parsed question, in the order of the questions, none left out.
C24_OneComponentPerQuestion ==
    \A j \in DOMAIN calc :
        /\ \A i \in DOMAIN calc[j].quiz.questions :
               /\ ConvertQuestion(calc[j].quiz.questions[i]).raised = ""
               /\ ConvertQuestion(calc[j].quiz.questions[i]).kind
                    = TableKind(calc[j].quiz.questions[i].type)
               /\ calc[j].quiz.questions[i].type \notin KnownTypes
                  => ConvertQuestion(calc[j].quiz.questions[i]).names_type
                       = calc[j].quiz.questions[i].type
        /\ Len(calc[j].components) = Len(calc[j].quiz.questions)
        /\ \A k \in DOMAIN calc[j].components :
               /\ calc[j].components[k].question = k
               /\ calc[j].components[k].component.type
                    = TableKind(calc[j].quiz.questions[k].type)

\* the question a component was made of
QuestionOf(result, k) == result.quiz.questions[result.components[k].question]

----------------------------------------------------------------------------
(* Question banks: QTIParser.parse_quiz, _load_banks_from_assessment and
   _load_question_bank *)

MaxBankItems == 3
MaxSelect == 2
MaxRootSections == 2
MaxGroupSections == 1
MaxInline == 1
MaxParses == 1

\* an <item>: _parse_item gives None for an item without question text
\* (qti_parser.py line 317)
QtiItem(source, index, parseable) ==
    [source |-> source, index |-> index, parseable |-> parseable]

\* a <selection> with its sourcebank_ref and its selection_number
Selection(n) == [bank |-> "b", n |-> n]

\* a <section>: its own <selection>, if any, comes before its sections
Section(selection, sections) == [selection |-> selection, sections |-> sections]

\* _load_question_bank, lines 147-153: the first num_questions items are
\* parsed, those that give a question are kept
ParsedItems(items, num_questions) ==
    SelectSeq(SubSeq(items, 1, Min(num_questions, Len(items))),
              LAMBDA item : item.parseable)

\* _load_question_bank, lines 123-163: nothing without the bank file
LoadQuestionBank(bank, num_questions) ==
    IF ~bank.exists THEN <<>> ELSE ParsedItems(bank.items, num_questions)

SelectionOfFirst(sections) ==
    IF sections = <<>> THEN <<>> ELSE sections[1].selection

\* section.find('.//selection'), lines 102-104: the first selection below
\* the section in document order, at any depth
FindSelection(section) ==
    IF section.selection # <<>> THEN section.selection
    ELSE SelectionOfFirst(SelectSeq(section.sections,
                                    LAMBDA s : s.selection # <<>>))

\* assessment.findall('.//section'), lines 96-98: every section of the
\* file in document order, at any depth
RECURSIVE FindAllSections(_)
FindAllSections(sections) ==
    IF sections = <<>> THEN <<>>
    ELSE <<sections[1]>> \o sections[1].sections
             \o FindAllSections(Tail(sections))

\* lines 106-121: the questions of the bank of one section
SectionQuestions(selection, bank) ==
    IF selection = <<>> THEN <<>>
    ELSE LoadQuestionBank(bank, selection[1].n)

\* _load_banks_from_assessment, lines 94-121
RECURSIVE ExtendFromSections(_, _, _)
ExtendFromSections(questions, sections, bank) ==
    IF sections = <<>> THEN questions
    ELSE ExtendFromSections(
             questions \o SectionQuestions(FindSelection(sections[1]), bank),
             Tail(sections), bank)

LoadBanksFromAssessment(questions, assessment, bank) ==
    ExtendFromSections(questions, FindAllSections(assessment), bank)

\* parse_quiz, lines 62-90: the items of the file, the banks of its
\* sections, then the banks of the sections of
\* non_cc_assessments/<quiz id>.xml.qti when that file is there
ParseQuizQuestions(quiz, bank) ==
    LoadBanksFromAssessment(
        LoadBanksFromAssessment(ParsedItems(quiz.items, Len(quiz.items)),
                                quiz.sections, bank),
        quiz.alt_sections, bank)

ParseQuiz(quiz, bank) ==
    /\ calc' = Append(calc, [quiz |-> quiz, bank |-> bank,
                             questions |-> ParseQuizQuestions(quiz, bank)])
    /\ UNCHANGED <<genVars, convVars>>

ItemLists(source, n) ==
    {[i \in 1..n |-> QtiItem(source, i, p[i])] : p \in [1..n -> BOOLEAN]}

Banks(max) ==
    {[exists |-> FALSE, items |-> <<>>]}
    \cup {[exists |-> TRUE, items |-> items] :
             items \in UNION {ItemLists("bank", n) : n \in 0..max}}

Selections == {<<>>} \cup {<<Selection(n)>> : n \in 0..MaxSelect}

GroupSections == {Section(s, <<>>) : s \in Selections}

RootSections ==
    {Section(s, g) :
        s \in Selections,
        g \in UNION {[1..n -> GroupSections] : n \in 0..MaxGroupSections}}

Assessments(max) == UNION {[1..n -> RootSections] : n \in 1..max}

\* the other file of the quiz, when there, has one section
AltAssessments == {<<>>} \cup {<<g>> : g \in GroupSections}

QuizFiles(max) ==
    {[items |-> items, sections |-> sections, alt_sections |-> alt] :
        items \in UNION {ItemLists("inline", n) : n \in 0..MaxInline},
        sections \in Assessments(max), alt \in AltAssessments}

BanksInit ==
    /\ calc = <<>>
    /\ used_names = {}
    /\ hist = <<>>
    /\ ConvIdle

BanksNext ==
    /\ Len(calc) < MaxParses
    /\ \E quiz \in QuizFiles(MaxRootSections), bank \in Banks(MaxBankItems) :
           ParseQuiz(quiz, bank)

SpecBanks == BanksInit /\ [][BanksNext]_vars

\* the parseable items of a list
Parseable(items) == SelectSeq(items, LAMBDA item : item.parseable)

\* the first n parsed questions of a bank
FirstParsed(bank, n) ==
    SubSeq(Parseable(bank.items), 1, Min(n, Len(Parseable(bank.items))))

\* the selections written in a list of sections, one for each <selection>
RECURSIVE SelectionsWritten(_)
SelectionsWritten(sections) ==
    IF sections = <<>> THEN <<>>
    ELSE sections[1].selection \o SelectionsWritten(sections[1].sections)
             \o SelectionsWritten(Tail(sections))

\* a quiz of one section with a selection, no other section and no other
\* file
OneFlatSelection(quiz) ==
    /\ Len(quiz.sections) = 1
    /\ quiz.sections[1].selection # <<>>
    /\ quiz.sections[1].sections = <<>>
    /\ quiz.alt_sections = <<>>

\* C26: a section that selects N questions from a bank appends the first N
\* parsed questions of the bank, in file order, after the questions of the
\* quiz file; their number is the smaller of N and the number of parseable
\* items of the bank.
C26_FirstParsedQuestions ==
    \A j \in DOMAIN calc :
        (OneFlatSelection(calc[j].quiz) /\ calc[j].bank.exists)
        => calc[j].questions
             = Parseable(calc[j].quiz.items)
                 \o FirstParsed(calc[j].bank,
                                calc[j].quiz.sections[1].selection[1].n)

\* the sum of the numbers of the selections
RECURSIVE SelectedTotal(_)
SelectedTotal(selections) ==
    IF selections = <<>> THEN 0
    ELSE selections[1].n + SelectedTotal(Tail(selections))

\* C27: every <selection> of a quiz adds its questions once: the questions
\* that come from the bank are no more than the numbers of the selections
\* together, also for a selection in a section inside another section.
C27_SelectionOnce ==
    \A j \in DOMAIN calc :
        Len(calc[j].questions) - Len(Parseable(calc[j].quiz.items))
          <= SelectedTotal(SelectionsWritten(calc[j].quiz.sections)
                             \o SelectionsWritten(calc[j].quiz.alt_sections))

----------------------------------------------------------------------------
(* The type of a question: QTIParser._get_question_type *)

MaxFields == 2
MaxKeywords == 1
MaxItemsTyped == 1

\* the words the profile string is searched for, lines 508-519
ProfileKeywords ==
    {"multiple_choice", "multiple_response", "true_false", "short_answer",
     "fib", "essay", "numerical"}

\* the entries of a question_type field: the keys of type_mapping, one
\* entry that is no key, and the empty entry
TypeEntries ==
    {"numerical_question", "short_answer_question", "multiple_choice_question",
     "true_false_question", "multiple_answers_question", "essay_question",
     "matching_question", "fill_in_multiple_blanks_question",
     "multiple_dropdowns_question", "calculated_question",
     "file_upload_question", "text_only_question", "hot_spot_question", ""}

\* a <qtimetadatafield>: the profile string of a cc_profile field is given
\* by the keywords found in it
MetadataField(label, keywords, entry) ==
    [label |-> label, keywords |-> keywords, entry |-> entry]

\* lines 508-519: the first keyword of the chain that is in the profile;
\* "" when the chain falls through
ProfileType(keywords) ==
    IF "multiple_choice" \in keywords THEN "multiple_choice"
    ELSE IF "multiple_response" \in keywords THEN "multiple_response"
    ELSE IF "true_false" \in keywords THEN "true_false"
    ELSE IF "short_answer" \in keywords \/ "fib" \in keywords THEN "short_answer"
    ELSE IF "essay" \in keywords THEN "essay"
    ELSE IF "numerical" \in keywords THEN "numerical"
    ELSE ""

\* lines 521-537: type_mapping.get(qtype, qtype) of entry.text or 'unknown'
TypeMapping(entry) ==
    IF entry = "" THEN "unknown"
    ELSE IF entry = "numerical_question" THEN "numerical"
    ELSE IF entry = "short_answer_question" THEN "short_answer"
    ELSE IF entry = "multiple_choice_question" THEN "multiple_choice"
    ELSE IF entry = "true_false_question" THEN "true_false"
    ELSE IF entry = "multiple_answers_question" THEN "multiple_response"
    ELSE IF entry = "essay_question" THEN "essay"
    ELSE entry

\* lines 496-537: what one field of the loop returns; "" to go on with the
\* next field
FieldType(field) ==
    IF field.label = "cc_profile" THEN ProfileType(field.keywords)
    ELSE IF field.label = "question_type" THEN TypeMapping(field.entry)
    ELSE ""

\* _get_question_type, lines 483-539: the first field that returns
RECURSIVE GetQuestionType(_)
GetQuestionType(fields) ==
    IF fields = <<>> THEN "unknown"
    ELSE IF FieldType(fields[1]) # "" THEN FieldType(fields[1])
    ELSE GetQuestionType(Tail(fields))

ParseItemType(fields) ==
    /\ calc' = Append(calc, [fields |-> fields, type |-> GetQuestionType(fields)])
    /\ UNCHANGED <<genVars, convVars>>

Profiles == {k \in SUBSET ProfileKeywords : Cardinality(k) <= MaxKeywords}

MetadataFields ==
    {MetadataField("cc_profile", k, "") : k \in Profiles}
    \cup {MetadataField("question_type", {}, e) : e \in TypeEntries}
    \cup {MetadataField("points_possible", {}, "")}

FieldLists(max) == UNION {[1..n -> MetadataFields] : n \in 0..max}

TypesInit ==
    /\ calc = <<>>
    /\ used_names = {}
    /\ hist = <<>>
    /\ ConvIdle

TypesNext ==
    /\ Len(calc) < MaxItemsTyped
    /\ \E fields \in FieldLists(MaxFields) : ParseItemType(fields)

SpecTypes == TypesInit /\ [][TypesNext]_vars

\* the fields with a label
FieldsLabelled(fields, label) == SelectSeq(fields, LAMBDA f : f.label = label)

\* C28: with a question_type field among the fields the type is the one
\* that field gives, wherever the cc_profile field stands and whatever it
\* says; without question_type field the profile decides.
C28_ExplicitTypeWins ==
    \A j \in DOMAIN calc :
        IF FieldsLabelled(calc[j].fields, "question_type") # <<>>
        THEN calc[j].type
               = TypeMapping(FieldsLabelled(calc[j].fields, "question_type")[1].entry)
        ELSE calc[j].type
               = GetQuestionType(FieldsLabelled(calc[j].fields, "cc_profile"))

----------------------------------------------------------------------------
(* The grading policy: OLXGenerator._build_grading_policy *)

MaxGroups == 2
MaxGroupWeight == 2
MaxPolicies == 1

\* an assignment group of canvas_parser.py lines 371-377; group_weight is a
\* percentage
AssignmentGroup(title, group_weight) == [title |-> title, group_weight |-> group_weight]

\* weight / 100.0, as a fraction
Percent(weight) == [num |-> weight, den |-> 100]

\* 1.0
One == [num |-> 1, den |-> 1]

GraderEntry(type, weight) ==
    [drop_count |-> 0, min_count |-> 1, type |-> type, weight |-> weight]

\* lines 310-323: a category for each group with a weight above zero
RECURSIVE WeightedGraders(_)
WeightedGraders(groups) ==
    IF groups = <<>> THEN <<>>
    ELSE (IF groups[1].group_weight > 0
          THEN <<GraderEntry(groups[1].title, Percent(groups[1].group_weight))>>
          ELSE <<>>)
         \o WeightedGraders(Tail(groups))

\* lines 325-335: the default category when there is none
GraderOrDefault(grader) ==
    IF grader = <<>> THEN <<GraderEntry("Homework", One)>> ELSE grader

\* _build_grading_policy, lines 299-342
BuildGradingPolicy(assignment_groups, group_weighting) ==
    GraderOrDefault(IF assignment_groups # <<>> /\ group_weighting = "percent"
                    THEN WeightedGraders(assignment_groups)
                    ELSE <<>>)

GradingPolicy(assignment_groups, group_weighting) ==
    /\ calc' = Append(calc,
                      [assignment_groups |-> assignment_groups,
                       group_weighting_scheme |-> group_weighting,
                       GRADER |-> BuildGradingPolicy(assignment_groups,
                                                     group_weighting)])
    /\ UNCHANGED <<genVars, convVars>>

AssignmentGroups ==
    {AssignmentGroup(t, w) : t \in {"Homework", "Exams"}, w \in 0..MaxGroupWeight}

GroupLists(max) == UNION {[1..n -> AssignmentGroups] : n \in 0..max}

WeightingSchemes == {"percent", "equal", ""}

GradingInit ==
    /\ calc = <<>>
    /\ used_names = {}
    /\ hist = <<>>
    /\ ConvIdle

GradingNext ==
    /\ Len(calc) < MaxPolicies
    /\ \E groups \in GroupLists(MaxGroups), scheme \in WeightingSchemes :
           GradingPolicy(groups, scheme)

SpecGrading == GradingInit /\ [][GradingNext]_vars

\* C29: with the weighting scheme "percent" the grading policy has one
\* category for each assignment group, in the order of the groups, with
\* the percentage of the group over 100 as weight; without groups or with
\* another scheme it has the one default category of weight 1.0; it is
\* never without category.
C29_GradingCategories ==
    \A j \in DOMAIN calc :
        /\ calc[j].GRADER # <<>>
        /\ IF /\ calc[j].group_weighting_scheme = "percent"
              /\ calc[j].assignment_groups # <<>>
           THEN calc[j].GRADER
                  = [i \in DOMAIN calc[j].assignment_groups |->
                        GraderEntry(calc[j].assignment_groups[i].title,
                                    Percent(calc[j].assignment_groups[i].group_weight))]
           ELSE calc[j].GRADER = <<GraderEntry("Homework", One)>>

----------------------------------------------------------------------------
(* The text of a question body: QTIToCapaConverter._strip_html_tags *)

MaxTokens == 3
MaxBodies == 1

\* a piece of the HTML text: an opening tag, a closing tag, or text; the
\* name of a tag is the sequence of its letters
Token(kind, name) == [kind |-> kind, name |-> name]

Newline == Token("text", <<"\n">>)

\* preserve_tags, lines 555-562
PreserveTags ==
    {<<"s", "t", "r", "o", "n", "g">>, <<"b">>, <<"e", "m">>, <<"i">>,
     <<"u">>, <<"u", "l">>, <<"o", "l">>, <<"l", "i">>,
     <<"t", "a", "b", "l", "e">>, <<"t", "h", "e", "a", "d">>,
     <<"t", "b", "o", "d", "y">>, <<"t", "r">>, <<"t", "d">>, <<"t", "h">>,
     <<"i", "m", "g">>, <<"b", "r">>, <<"h", "r">>, <<"s", "u", "b">>,
     <<"s", "u", "p">>, <<"p", "r", "e">>, <<"c", "o", "d", "e">>, <<"a">>}

\* re.sub(r'<div[^>]*>', '', ...) and the like, lines 566, 568, 571: the
\* pattern takes every opening tag that begins with the letters
RemoveOpening(text, letters) ==
    SelectSeq(text, LAMBDA t : ~(t.kind = "open" /\ IsPrefix(letters, t.name)))

\* re.sub(r'</div>', '', ...) and the like, lines 567, 569
RemoveClosing(text, name) ==
    SelectSeq(text, LAMBDA t : ~(t.kind = "close" /\ t.name = name))

\* re.sub(r'</p>', '\n', ...), line 572
ClosingToNewline(text, name) ==
    [k \in DOMAIN text |->
        IF text[k].kind = "close" /\ text[k].name = name THEN Newline
        ELSE text[k]]

\* remove_unknown_tags, lines 575-584
RemoveUnknownTags(text) ==
    SelectSeq(text, LAMBDA t : t.kind = "text" \/ t.name \in PreserveTags)

\* re.sub(r'\n{3,}', '\n\n', ...), line 587
RECURSIVE CollapseNewlines(_, _)
CollapseNewlines(text, run) ==
    IF text = <<>> THEN <<>>
    ELSE IF text[1] = Newline
    THEN (IF run >= 2 THEN <<>> ELSE <<Newline>>)
             \o CollapseNewlines(Tail(text), run + 1)
    ELSE <<text[1]>> \o CollapseNewlines(Tail(text), 0)

\* text.strip(), line 588
RECURSIVE StripLeft(_)
StripLeft(text) ==
    IF text # <<>> /\ text[1] = Newline THEN StripLeft(Tail(text)) ELSE text

RECURSIVE StripRight(_)
StripRight(text) ==
    IF text # <<>> /\ text[Len(text)] = Newline
    THEN StripRight(SubSeq(text, 1, Len(text) - 1))
    ELSE text

\* _strip_html_tags, lines 542-590
StripHtmlTags(html) ==
    StripRight(StripLeft(CollapseNewlines(
        RemoveUnknownTags(
            ClosingToNewline(
                RemoveOpening(
                    RemoveClosing(
                        RemoveOpening(
                            RemoveClosing(RemoveOpening(html, <<"d", "i", "v">>),
                                          <<"d", "i", "v">>),
                            <<"s", "p", "a", "n">>),
                        <<"s", "p", "a", "n">>),
                    <<"p">>),
                <<"p">>)),
        0)))

StripBody(html) ==
    /\ calc' = Append(calc, [html |-> html, text |-> StripHtmlTags(html)])
    /\ UNCHANGED <<genVars, convVars>>

TagNames ==
    {<<"p">>, <<"p", "r", "e">>, <<"d", "i", "v">>, <<"s", "p", "a", "n">>,
     <<"b">>, <<"h", "1">>}

Tokens ==
    {Token("text", <<"t">>)}
    \cup {Token(k, n) : k \in {"open", "close"}, n \in TagNames}

Bodies(max) == UNION {[1..n -> Tokens] : n \in 0..max}

StripInit ==
    /\ calc = <<>>
    /\ used_names = {}
    /\ hist = <<>>
    /\ ConvIdle

StripNext ==
    /\ Len(calc) < MaxBodies
    /\ \E html \in Bodies(MaxTokens) : StripBody(html)

SpecStrip == StripInit /\ [][StripNext]_vars

\* the text and the tags of the allow-list, in their order
KeptTokens(html) ==
    SelectSeq(html, LAMBDA t : t.kind = "text" \/ t.name \in PreserveTags)

\* C30: apart from line breaks, what is left of a body is its text and its
\* opening and closing tags with a name of the allow-list, in their order;
\* every other tag is gone; <pre> and </pre> are both kept.
C30_AllowListKept ==
    \A j \in DOMAIN calc :
        SelectSeq(calc[j].text, LAMBDA t : t # Newline) = KeptTokens(calc[j].html)

====
